---- MODULE Spec2Model ----
(***************************************************************************)
(* Persistence layer of the customer-support assistant.                    *)
(*                                                                         *)
(* Conversation stores: ConversationManager (SQLite) and                   *)
(* ConversationManagerS3 (one metadata.json and one messages.json object   *)
(* per conversation).  Order stores: OrderManager (SQLite) and             *)
(* OrderManagerDynamoDB (one item per order).                              *)
(*                                                                         *)
(* Three specifications share the variables:                               *)
(*   Spec       every conversation-store call is issued to both adapters,  *)
(*              one call after the other (sequential callers);             *)
(*   OrderSpec  every order-store call is issued to both adapters, and the *)
(*              place_order tool to the store it is bound to;              *)
(*   ConcSpec   two clients of the S3 adapter whose calls interleave at    *)
(*              the granularity of single S3 requests.                     *)
(* Calls are modelled for requests the backend answers (an object or       *)
(* NoSuchKey, a row or none); datetime.now() is a clock that never goes    *)
(* backwards but may give the same reading twice.                          *)
(***************************************************************************)
EXTENDS Integers, Sequences, FiniteSets, TLC

VARIABLES
    clock,          \* last reading of datetime.now(), in ticks
    conversations,  \* SQLite table conversations: id -> row
    messages,       \* SQLite table messages: rows in rowid order
    sqlite_sequence,\* SQLite AUTOINCREMENT counter of table messages
    bucket,         \* S3 bucket: key -> JSON document
    uuids,          \* number of uuid4() values drawn so far
    res,            \* the last call and what each adapter returned
    orders,         \* SQLite table orders: order_id -> row
    order_items,    \* SQLite table order_items: rows in rowid order
    item_sequence,  \* SQLite AUTOINCREMENT counter of table order_items
    table,          \* DynamoDB table: order_id -> item
    placed,         \* order ids the place_order tool has stored
    calls,          \* OrderSpec, ConcSpec: number of calls issued so far
    pc,             \* ConcSpec: per client, the position inside its call
    local,          \* ConcSpec: per client, the locals of its call
    app             \* WiringSpec: the main.py process, its environment and conversation

convVars == <<conversations, messages, sqlite_sequence, bucket, uuids>>
orderVars == <<orders, order_items, item_sequence, table, placed, calls>>
concVars == <<pc, local>>
vars == <<clock, conversations, messages, sqlite_sequence, bucket, uuids, res,
          orders, order_items, item_sequence, table, placed, calls, pc, local, app>>

-----------------------------------------------------------------------------
(* Bounds of the model *)

MaxClock == 1
TicksPerSecond == 2
MaxMessages == 2
MaxConcCalls == 3
MaxOrderCalls == 3
MaxPageItems == 1
MaxStatusCalls == 3
MaxTxCalls == 3

ConvIds == {"c1", "c2"}
OrderIds == {"o1", "o2"}

-----------------------------------------------------------------------------
(* Python values *)

None == [none |-> TRUE]

\* A call that returned v, and a call that ended in exception e.
Return(v) == [exc |-> "none", val |-> v]
Raise(e) == [exc |-> e]

\* None in a field that otherwise holds a string (customer_id, sender_name).
NoneStr == "None"

\* A python dict used as metadata: [dict |-> the set of its <<key, value>> pairs].
EmptyDict == [dict |-> {}]
Metadata == {None, EmptyDict, [dict |-> {<<"table", "5">>}]}

\* Arguments of create_conversation and of add_message the callers draw from.
Customers ==
    {[customer_id |-> "u1", customer_name |-> "Ann", metadata |-> None],
     [customer_id |-> "u2", customer_name |-> "Bob", metadata |-> [dict |-> {<<"table", "5">>}]]}
Payloads ==
    {[sender_type |-> "user", content |-> "hi", sender_name |-> NoneStr, metadata |-> None],
     [sender_type |-> "agent", content |-> "yo", sender_name |-> "Bot",
      metadata |-> [dict |-> {<<"order_id", "o1">>}]]}

\* bool(x) of a metadata argument: None and {} are falsy.
Truthy(metadata) == metadata # None /\ metadata # EmptyDict

\* json.dumps / json.loads of a metadata dict: the text is the sequence of its
\* pairs, "{}" is the empty sequence.
RECURSIVE Pairs(_)
Pairs(S) ==
    IF S = {} THEN <<>>
    ELSE LET p == CHOOSE x \in S : TRUE IN <<p>> \o Pairs(S \ {p})
json_dumps(d) == Pairs(d.dict)
json_loads(text) == [dict |-> {text[i] : i \in 1..Len(text)}]

\* datetime.isoformat(): "YYYY-MM-DDTHH:MM:SS" and, only when the microsecond
\* part is not zero, ".ffffff" after it.  A text is the sequence of its fields.
isoformat(t) ==
    IF t % TicksPerSecond = 0 THEN <<t \div TicksPerSecond>>
    ELSE <<t \div TicksPerSecond, t % TicksPerSecond>>

\* Comparison of two isoformat texts as strings (SQLite BINARY collation,
\* python str comparison): field by field, a proper prefix is smaller.
TextLess(a, b) ==
    \/ a[1] < b[1]
    \/ /\ a[1] = b[1]
       /\ \/ Len(a) < Len(b)
          \/ Len(a) = 2 /\ Len(b) = 2 /\ a[2] < b[2]
TextLeq(a, b) == a = b \/ TextLess(a, b)

\* a function without key k
Without(f, k) == [x \in DOMAIN f \ {k} |-> f[x]]

-----------------------------------------------------------------------------
(* ConversationManager: SQLite.  Each call is one connection and one        *)
(* transaction; the schema declares messages.conversation_id as a FOREIGN   *)
(* KEY, and no connection issues PRAGMA foreign_keys = ON, so SQLite does   *)
(* not enforce it.                                                          *)

\* INSERT INTO conversations; a second row with the same PRIMARY KEY raises
\* sqlite3.IntegrityError, which the method turns into False.
ConversationManager_create_conversation(conversation_id, customer_id, customer_name, metadata, now) ==
    IF conversation_id \in DOMAIN conversations
    THEN [conversations |-> conversations, ret |-> Return(FALSE)]
    ELSE [conversations |->
            conversations @@ (conversation_id :>
                [id |-> conversation_id,
                 customer_id |-> customer_id,
                 customer_name |-> customer_name,
                 created_at |-> isoformat(now),
                 updated_at |-> isoformat(now),
                 metadata |-> IF Truthy(metadata) THEN json_dumps(metadata) ELSE <<>>]),
          ret |-> Return(TRUE)]

\* INSERT INTO messages, then UPDATE conversations SET updated_at WHERE id = ?
\* (no row to update when the conversation is absent); returns cursor.lastrowid.
ConversationManager_add_message(conversation_id, sender_type, content, sender_name, metadata, timestamp, now) ==
    [messages |-> Append(messages,
        [id |-> sqlite_sequence + 1,
         conversation_id |-> conversation_id,
         timestamp |-> isoformat(timestamp),
         sender_type |-> sender_type,
         sender_name |-> sender_name,
         content |-> content,
         metadata |-> IF Truthy(metadata) THEN json_dumps(metadata) ELSE <<>>]),
     sqlite_sequence |-> sqlite_sequence + 1,
     conversations |->
        [c \in DOMAIN conversations |->
            IF c = conversation_id
            THEN [conversations[c] EXCEPT !.updated_at = isoformat(now)]
            ELSE conversations[c]],
     ret |-> Return(sqlite_sequence + 1)]

\* SELECT ... FROM conversations WHERE id = ?
ConversationManager_get_conversation(conversation_id) ==
    IF conversation_id \notin DOMAIN conversations THEN None
    ELSE [conversations[conversation_id] EXCEPT
             !.metadata = json_loads(conversations[conversation_id].metadata)]

\* Mutant (C2): a sort that is not stable, a row goes before the earlier rows
\* with an equal timestamp.
Mutant_OrderByTimestampUnstable(rows) ==
    LET Before(j, i) ==
            \/ TextLess(rows[j].timestamp, rows[i].timestamp)
            \/ rows[j].timestamp = rows[i].timestamp /\ j > i
        Rank(i) == Cardinality({j \in 1..Len(rows) : Before(j, i)}) + 1
    IN  [p \in 1..Len(rows) |-> rows[CHOOSE i \in 1..Len(rows) : Rank(i) = p]]

\* ORDER BY timestamp ASC: SQLite's sorter keeps rows with equal keys in the
\* order the scan delivers them (rowid order through idx_conversation_id).
\* A row's place is one more than the number of rows that go before it.
OrderByTimestampAsc(rows) ==
    LET Before(j, i) ==
            \/ TextLess(rows[j].timestamp, rows[i].timestamp)
            \/ rows[j].timestamp = rows[i].timestamp /\ j < i
        Rank(i) == Cardinality({j \in 1..Len(rows) : Before(j, i)}) + 1
    IN  [p \in 1..Len(rows) |-> rows[CHOOSE i \in 1..Len(rows) : Rank(i) = p]]

\* the dict built from one row of messages
MessageRow(row) == [row EXCEPT !.metadata = json_loads(row.metadata)]

\* SELECT ... WHERE conversation_id = ? ORDER BY timestamp ASC [LIMIT ? OFFSET ?];
\* the LIMIT/OFFSET form is used only when limit is truthy (limit = 0 stands
\* for None as well: "if limit:" treats both alike).
ConversationManager_get_conversation_messages(conversation_id, limit, offset) ==
    LET Mine(row) == row.conversation_id = conversation_id
        rows == OrderByTimestampAsc(SelectSeq(messages, Mine))
        fetched == IF limit # 0
                   THEN SubSeq(rows, offset + 1,
                               IF offset + limit < Len(rows) THEN offset + limit ELSE Len(rows))
                   ELSE rows
    IN  CHOOSE dicts \in {[i \in 1..Len(page) |-> MessageRow(page[i])] : page \in {fetched}} :
            TRUE

\* ORDER BY timestamp DESC: the same sorter on the descending key, rows with
\* equal timestamps stay in scan (rowid) order.
OrderByTimestampDesc(rows) ==
    LET Before(j, i) ==
            \/ TextLess(rows[i].timestamp, rows[j].timestamp)
            \/ rows[j].timestamp = rows[i].timestamp /\ j < i
        Rank(i) == Cardinality({j \in 1..Len(rows) : Before(j, i)}) + 1
    IN  [p \in 1..Len(rows) |-> rows[CHOOSE i \in 1..Len(rows) : Rank(i) = p]]

\* reversed(rows)
reversed(rows) == [i \in 1..Len(rows) |-> rows[Len(rows) + 1 - i]]

\* SELECT ... WHERE conversation_id = ? ORDER BY timestamp DESC LIMIT ?, then the
\* fetched rows reversed (limit >= 0 here; LIMIT 0 fetches no row)
ConversationManager_get_recent_messages(conversation_id, limit) ==
    LET Mine(row) == row.conversation_id = conversation_id
        rows == OrderByTimestampDesc(SelectSeq(messages, Mine))
        fetched == SubSeq(rows, 1, IF limit < Len(rows) THEN limit ELSE Len(rows))
    IN  CHOOSE dicts \in {[i \in 1..Len(page) |-> MessageRow(page[i])] :
                             page \in {reversed(fetched)}} : TRUE

\* DELETE FROM messages WHERE conversation_id = ?; DELETE FROM conversations
\* WHERE id = ?; commit; then "cursor.total_changes": sqlite3.Cursor has no such
\* attribute (it is an attribute of the connection), so the method raises
\* AttributeError after the commit.
ConversationManager_delete_conversation(conversation_id) ==
    LET Others(row) == row.conversation_id # conversation_id
    IN  [messages |-> SelectSeq(messages, Others),
         conversations |-> Without(conversations, conversation_id),
         ret |-> Raise("AttributeError")]

\* DELETE FROM messages; DELETE FROM conversations
ConversationManager_clear_all_data ==
    [messages |-> <<>>, conversations |-> <<>>]

\* SELECT COUNT(*) FROM conversations / messages; COUNT(DISTINCT customer_id)
ConversationManager_get_statistics ==
    [total_conversations |-> Cardinality(DOMAIN conversations),
     total_messages |-> Len(messages),
     unique_customers |->
        Cardinality({conversations[c].customer_id : c \in DOMAIN conversations} \ {NoneStr})]

-----------------------------------------------------------------------------
(* ConversationManagerS3: two objects per conversation under the prefix.    *)

_get_conversation_key(conversation_id) == <<conversation_id, "metadata.json">>
_get_messages_key(conversation_id) == <<conversation_id, "messages.json">>

\* get_object + json.loads; NoSuchKey gives None
_load_json_from_s3(key) == IF key \in DOMAIN bucket THEN bucket[key] ELSE None

\* How a request to the backend can end: it is answered, or the transport
\* fails (botocore EndpointConnectionError, a subclass of Exception).
Outcomes == {"answered", "EndpointConnectionError"}

\* s3_client.get_object: the object, NoSuchKey for an absent key, or the
\* transport failure
get_object(key, outcome) ==
    IF outcome # "answered" THEN Raise(outcome)
    ELSE IF key \in DOMAIN bucket THEN Return(bucket[key]) ELSE Raise("NoSuchKey")

\* _load_json_from_s3 for a request that ends in outcome: both except
\* clauses (NoSuchKey, Exception) return None
load_json_from_s3(key, outcome) ==
    LET response == get_object(key, outcome)
    IN  IF response.exc = "none" THEN response.val
        ELSE IF response.exc = "NoSuchKey" THEN None
        ELSE None

\* get_conversation for a request that ends in outcome
get_conversation(conversation_id, outcome) ==
    load_json_from_s3(_get_conversation_key(conversation_id), outcome)

\* put_object: the bucket after the whole object at key is replaced by data
_save_json_to_s3(b, key, data) == [k \in DOMAIN b \cup {key} |-> IF k = key THEN data ELSE b[k]]

\* str(uuid.uuid4()): the n-th value drawn
uuid4(n) == <<"uuid", n>>

\* the dict appended to the messages document
S3Message(message_id, conversation_id, sender_type, content, sender_name, metadata, timestamp) ==
    [id |-> message_id,
     conversation_id |-> conversation_id,
     timestamp |-> isoformat(timestamp),
     sender_type |-> sender_type,
     sender_name |-> sender_name,
     content |-> content,
     metadata |-> IF Truthy(metadata) THEN metadata ELSE EmptyDict]

\* Mutant (C1): create without the existence check.
Mutant_S3_create_overwrites(conversation_id, customer_id, customer_name, metadata, now) ==
    LET conversation_data ==
            [id |-> conversation_id,
             customer_id |-> customer_id,
             customer_name |-> customer_name,
             created_at |-> isoformat(now),
             updated_at |-> isoformat(now),
             metadata |-> IF Truthy(metadata) THEN metadata ELSE EmptyDict]
        b1 == _save_json_to_s3(bucket, _get_messages_key(conversation_id), [messages |-> <<>>])
    IN  [bucket |-> _save_json_to_s3(b1, _get_conversation_key(conversation_id), conversation_data),
         ret |-> Return(TRUE)]

\* existence check on the metadata object, then an empty messages document and
\* the metadata document are written
ConversationManagerS3_create_conversation(conversation_id, customer_id, customer_name, metadata, now) ==
    LET key == _get_conversation_key(conversation_id)
        conversation_data ==
            [id |-> conversation_id,
             customer_id |-> customer_id,
             customer_name |-> customer_name,
             created_at |-> isoformat(now),
             updated_at |-> isoformat(now),
             metadata |-> IF Truthy(metadata) THEN metadata ELSE EmptyDict]
        b1 == _save_json_to_s3(bucket, _get_messages_key(conversation_id), [messages |-> <<>>])
    IN  IF _load_json_from_s3(key) # None
        THEN [bucket |-> bucket, ret |-> Return(FALSE)]
        ELSE [bucket |-> _save_json_to_s3(b1, key, conversation_data), ret |-> Return(TRUE)]

\* Mutant (C10): add_message that stores nothing when the metadata document is
\* missing.
Mutant_S3_add_message_requires_metadata(conversation_id, sender_type, content, sender_name, metadata, timestamp, now) ==
    LET message_id == uuid4(uuids + 1)
        messages_key == _get_messages_key(conversation_id)
        loaded == _load_json_from_s3(messages_key)
        messages_data == IF loaded = None THEN [messages |-> <<>>] ELSE loaded
        message == S3Message(message_id, conversation_id, sender_type, content,
                             sender_name, metadata, timestamp)
        conv_key == _get_conversation_key(conversation_id)
        conversation == _load_json_from_s3(conv_key)
    IN  [bucket |-> IF conversation # None
                    THEN _save_json_to_s3(
                            _save_json_to_s3(bucket, messages_key,
                                [messages |-> Append(messages_data.messages, message)]),
                            conv_key, [conversation EXCEPT !.updated_at = isoformat(now)])
                    ELSE bucket,
         uuids |-> uuids + 1,
         ret |-> Return(message_id)]

\* read the whole messages document (an empty one when the key is absent),
\* append, write it back; then rewrite the metadata document with a new
\* updated_at when there is one
ConversationManagerS3_add_message(conversation_id, sender_type, content, sender_name, metadata, timestamp, now) ==
    LET message_id == uuid4(uuids + 1)
        messages_key == _get_messages_key(conversation_id)
        loaded == _load_json_from_s3(messages_key)
        messages_data == IF loaded = None THEN [messages |-> <<>>] ELSE loaded
        message == S3Message(message_id, conversation_id, sender_type, content,
                             sender_name, metadata, timestamp)
        b1 == _save_json_to_s3(bucket, messages_key,
                               [messages |-> Append(messages_data.messages, message)])
        conv_key == _get_conversation_key(conversation_id)
        conversation == _load_json_from_s3(conv_key)
    IN  [bucket |-> IF conversation # None
                    THEN _save_json_to_s3(b1, conv_key,
                            [conversation EXCEPT !.updated_at = isoformat(now)])
                    ELSE b1,
         uuids |-> uuids + 1,
         ret |-> Return(message_id)]

ConversationManagerS3_get_conversation(conversation_id) ==
    _load_json_from_s3(_get_conversation_key(conversation_id))

\* the stored list, sliced: messages[offset:] when offset > 0, then
\* messages[:limit] when limit is truthy (limit = 0 stands for None as well)
ConversationManagerS3_get_conversation_messages(conversation_id, limit, offset) ==
    LET messages_data == _load_json_from_s3(_get_messages_key(conversation_id))
        all == IF messages_data = None THEN <<>> ELSE messages_data.messages
        from == IF offset > 0 THEN SubSeq(all, offset + 1, Len(all)) ELSE all
    IN  IF limit # 0 /\ limit < Len(from) THEN SubSeq(from, 1, limit) ELSE from

\* all_messages[-limit:] of the stored list: the last limit messages when
\* 0 < limit < len, and the whole list otherwise (-0 is 0, so [-0:] is [0:])
ConversationManagerS3_get_recent_messages(conversation_id, limit) ==
    LET messages_data == _load_json_from_s3(_get_messages_key(conversation_id))
        all_messages == IF messages_data = None THEN <<>> ELSE messages_data.messages
    IN  IF 0 < limit /\ limit < Len(all_messages)
        THEN SubSeq(all_messages, Len(all_messages) - limit + 1, Len(all_messages))
        ELSE all_messages

\* False when the metadata object is absent; else delete_object on both keys
ConversationManagerS3_delete_conversation(conversation_id) ==
    LET conv_key == _get_conversation_key(conversation_id)
    IN  IF _load_json_from_s3(conv_key) = None
        THEN [bucket |-> bucket, ret |-> Return(FALSE)]
        ELSE [bucket |-> Without(Without(bucket, conv_key), _get_messages_key(conversation_id)),
              ret |-> Return(TRUE)]

\* delete_object on every key the paginator lists under the prefix
ConversationManagerS3_clear_all_data == [bucket |-> <<>>]

\* one pass over the listed keys: metadata.json keys are counted, the lengths of
\* the messages.json documents are summed
RECURSIVE SumLengths(_)
SumLengths(keys) ==
    IF keys = {} THEN 0
    ELSE LET k == CHOOSE x \in keys : TRUE
         IN  Len(bucket[k].messages) + SumLengths(keys \ {k})

ConversationManagerS3_get_statistics ==
    LET metadata_keys == {k \in DOMAIN bucket : k[2] = "metadata.json"}
        messages_keys == {k \in DOMAIN bucket : k[2] = "messages.json"}
    IN  [total_conversations |-> Cardinality(metadata_keys),
         total_messages |-> SumLengths(messages_keys),
         unique_customers |->
            Cardinality({bucket[k].customer_id : k \in metadata_keys} \ {NoneStr})]

-----------------------------------------------------------------------------
(* Orders.  Money is counted in thousandths of a currency unit; a number    *)
(* that reaches a store carries its python type, because boto3 refuses      *)
(* float values inside an item.                                             *)

PyFloat(v) == [type |-> "float", v |-> v]
PyInt(v) == [type |-> "int", v |-> v]

\* OrderStatus: the .value of each member
OrderStatus ==
    {"Pending", "Confirmed", "Being prepared", "Ready for pickup", "Completed", "Cancelled"}
PENDING == "Pending"

\* round(x, 2): to the nearest hundredth, a tie to the even hundredth
Round2(x) ==
    LET r == x % 10
        down == x - r
    IN  IF r < 5 THEN down
        ELSE IF r > 5 THEN down + 10
        ELSE IF (down \div 10) % 2 = 0 THEN down ELSE down + 10

\* sum over the items of unit_price * quantity
RECURSIVE SumItems(_)
SumItems(items) ==
    IF items = <<>> THEN 0
    ELSE Head(items).unit_price.v * Head(items).quantity + SumItems(Tail(items))

\* Decimal(str(x)) at the DynamoDB boundary and float(d) on the way back
Decimal(v) == [decimal |-> v]
float(d) == d.decimal

-----------------------------------------------------------------------------
(* OrderManager: SQLite *)

\* the order_items rows of one create_order call, ids from the AUTOINCREMENT
\* counter onwards
ItemRows(order_id, items) ==
    [i \in 1..Len(items) |->
        [id |-> item_sequence + i,
         order_id |-> order_id,
         item_name |-> items[i].item_name,
         quantity |-> items[i].quantity,
         unit_price |-> items[i].unit_price.v,
         subtotal |-> items[i].unit_price.v * items[i].quantity]]

\* INSERT INTO orders (IntegrityError on a second row with the same order_id,
\* turned into False), then one INSERT INTO order_items per item; one commit
OrderManager_create_order(order_id, customer_id, customer_name, items, total_price, conversation_id, estimated_ready_time, metadata, now) ==
    IF order_id \in DOMAIN orders
    THEN [orders |-> orders, order_items |-> order_items,
          item_sequence |-> item_sequence, ret |-> Return(FALSE)]
    ELSE [orders |-> orders @@ (order_id :>
            [order_id |-> order_id,
             customer_id |-> customer_id,
             customer_name |-> customer_name,
             total_price |-> total_price,
             status |-> PENDING,
             created_at |-> isoformat(now),
             updated_at |-> isoformat(now),
             estimated_ready_time |-> estimated_ready_time,
             conversation_id |-> conversation_id,
             metadata |-> IF Truthy(metadata) THEN json_dumps(metadata) ELSE <<>>]),
          order_items |-> order_items \o ItemRows(order_id, items),
          item_sequence |-> item_sequence + Len(items),
          ret |-> Return(TRUE)]

\* SELECT the order row, then its items ORDER BY id ASC
OrderManager_get_order(order_id) ==
    IF order_id \notin DOMAIN orders THEN None
    ELSE LET Mine(row) == row.order_id = order_id
             rows == SelectSeq(order_items, Mine)
             row == orders[order_id]
         IN  [order_id |-> row.order_id,
              customer_id |-> row.customer_id,
              customer_name |-> row.customer_name,
              total_price |-> row.total_price,
              status |-> row.status,
              created_at |-> row.created_at,
              updated_at |-> row.updated_at,
              estimated_ready_time |-> row.estimated_ready_time,
              conversation_id |-> row.conversation_id,
              metadata |-> json_loads(row.metadata),
              items |-> [i \in 1..Len(rows) |->
                           [item_name |-> rows[i].item_name,
                            quantity |-> rows[i].quantity,
                            unit_price |-> rows[i].unit_price,
                            subtotal |-> rows[i].subtotal]]]

\* ORDER BY created_at DESC over a set of orders: every sequence that lists each
\* id once with created_at never increasing.  Orders with equal created_at come
\* in the order the engine scans them, which the caller does not control, so
\* each such order is a possible result.
NewestFirst(ids, created_at) ==
    {s \in [1..Cardinality(ids) -> ids] :
        /\ \A i, j \in 1..Cardinality(ids) : i # j => s[i] # s[j]
        /\ \A i \in 1..Cardinality(ids) - 1 : TextLeq(created_at[s[i + 1]], created_at[s[i]])}

\* the first limit elements ("LIMIT n", "Limit=n"); limit = 0 stands for None
Take(seq, limit) == IF limit # 0 /\ limit < Len(seq) THEN SubSeq(seq, 1, limit) ELSE seq

\* SELECT ... FROM orders WHERE customer_name = ? [AND status = ?]
\* ORDER BY created_at DESC [LIMIT n]; the dicts carry no items.  The value is
\* the set of results the query can give.
OrderManager_get_customer_orders(customer_name, limit, status) ==
    LET created_at == [o \in DOMAIN orders |-> orders[o].created_at]
        matching == {o \in DOMAIN orders :
                        /\ orders[o].customer_name = customer_name
                        /\ status # NoneStr => orders[o].status = status}
    IN  {[i \in 1..Len(Take(s, limit)) |->
            [orders[s[i]] EXCEPT !.metadata = json_loads(orders[s[i]].metadata)]] :
         s \in NewestFirst(matching, created_at)}

\* ORDER BY created_at ASC over a set of orders: every sequence that lists each
\* id once with created_at never decreasing
OldestFirst(ids, created_at) ==
    {s \in [1..Cardinality(ids) -> ids] :
        /\ \A i, j \in 1..Cardinality(ids) : i # j => s[i] # s[j]
        /\ \A i \in 1..Cardinality(ids) - 1 : TextLeq(created_at[s[i]], created_at[s[i + 1]])}

\* SELECT ... FROM orders WHERE status = ? ORDER BY created_at ASC [LIMIT n];
\* the dicts carry no items.  The value is the set of results the query can give.
OrderManager_get_orders_by_status(status, limit) ==
    LET created_at == [o \in DOMAIN orders |-> orders[o].created_at]
        matching == {o \in DOMAIN orders : orders[o].status = status}
    IN  {[i \in 1..Len(Take(s, limit)) |->
            [orders[s[i]] EXCEPT !.metadata = json_loads(orders[s[i]].metadata)]] :
         s \in OldestFirst(matching, created_at)}

\* get_customer_orders(customer_id, limit=1): the argument is matched against
\* the customer_name column
OrderManager_get_customer_last_order(customer_id) ==
    {IF r = <<>> THEN None ELSE r[1] :
        r \in OrderManager_get_customer_orders(customer_id, 1, NoneStr)}

\* Mutant (C7): an UPDATE that leaves the status column alone.
Mutant_update_order_status_keeps_status(order_id, status, now) ==
    [orders |-> [o \in DOMAIN orders |->
                    IF o = order_id
                    THEN [orders[o] EXCEPT !.updated_at = isoformat(now)]
                    ELSE orders[o]],
     ret |-> Return(order_id \in DOMAIN orders)]

\* UPDATE orders SET status = ?, updated_at = ? WHERE order_id = ?; rowcount > 0
OrderManager_update_order_status(order_id, status, now) ==
    [orders |-> [o \in DOMAIN orders |->
                    IF o = order_id
                    THEN [orders[o] EXCEPT !.status = status, !.updated_at = isoformat(now)]
                    ELSE orders[o]],
     ret |-> Return(order_id \in DOMAIN orders)]

\* Mutant (C23): an UPDATE that writes the whole row, with the status the order
\* was created with.
Mutant_update_order_ready_time_whole_row(order_id, estimated_ready_time, now) ==
    [orders |-> [o \in DOMAIN orders |->
                    IF o = order_id
                    THEN [orders[o] EXCEPT !.estimated_ready_time = estimated_ready_time,
                                           !.status = PENDING,
                                           !.updated_at = isoformat(now)]
                    ELSE orders[o]],
     ret |-> Return(order_id \in DOMAIN orders)]

\* UPDATE orders SET estimated_ready_time = ?, updated_at = ? WHERE order_id = ?
OrderManager_update_order_ready_time(order_id, estimated_ready_time, now) ==
    [orders |-> [o \in DOMAIN orders |->
                    IF o = order_id
                    THEN [orders[o] EXCEPT !.estimated_ready_time = estimated_ready_time,
                                           !.updated_at = isoformat(now)]
                    ELSE orders[o]],
     ret |-> Return(order_id \in DOMAIN orders)]

\* DELETE FROM order_items, DELETE FROM orders; rowcount of the second DELETE
OrderManager_delete_order(order_id) ==
    LET Others(row) == row.order_id # order_id
    IN  [order_items |-> SelectSeq(order_items, Others),
         orders |-> Without(orders, order_id),
         ret |-> Return(order_id \in DOMAIN orders)]

OrderManager_clear_all_orders == [order_items |-> <<>>, orders |-> <<>>]

\* SUM(total_price) over a set of order ids
RECURSIVE SumTotals(_)
SumTotals(ids) ==
    IF ids = {} THEN 0
    ELSE LET o == CHOOSE x \in ids : TRUE
         IN  orders[o].total_price + SumTotals(ids \ {o})

\* COUNT(*), SUM(total_price), GROUP BY status, COUNT(DISTINCT customer_id)
OrderManager_get_order_statistics ==
    [total_orders |-> Cardinality(DOMAIN orders),
     total_revenue |-> Round2(SumTotals(DOMAIN orders)),
     status_breakdown |->
        [st \in {orders[o].status : o \in DOMAIN orders} |->
            Cardinality({o \in DOMAIN orders : orders[o].status = st})],
     unique_customers |->
        Cardinality({orders[o].customer_id : o \in DOMAIN orders} \ {NoneStr})]

-----------------------------------------------------------------------------
(* OrderManagerDynamoDB: one item per order_id *)

\* put_item serialises the item with boto3's TypeSerializer, which raises
\* TypeError on a python float anywhere in it; the total is passed as Decimal,
\* the items list as the caller gave it.
Serializable(items) == \A i \in 1..Len(items) : items[i].unit_price.type # "float"

\* the attributes present in every created item, and the optional ones
OrderItem(order_id, customer_id, customer_name, items, total_price, conversation_id, estimated_ready_time, metadata, now) ==
    [a \in {"order_id", "customer_id", "customer_name", "total_price", "status",
            "created_at", "updated_at", "items"}
           \cup (IF estimated_ready_time # NoneStr THEN {"estimated_ready_time"} ELSE {})
           \cup (IF Truthy(metadata) THEN {"metadata"} ELSE {})
           \cup (IF conversation_id # NoneStr THEN {"conversation_id"} ELSE {}) |->
        CASE a = "order_id" -> order_id
          [] a = "customer_id" -> customer_id
          [] a = "customer_name" -> customer_name
          [] a = "total_price" -> Decimal(total_price)
          [] a = "status" -> PENDING
          [] a = "created_at" -> isoformat(now)
          [] a = "updated_at" -> isoformat(now)
          [] a = "items" -> items
          [] a = "estimated_ready_time" -> estimated_ready_time
          [] a = "metadata" -> metadata
          [] a = "conversation_id" -> conversation_id]

\* put_item with no ConditionExpression: an item with the same key is replaced;
\* any exception gives False
OrderManagerDynamoDB_create_order(order_id, customer_id, customer_name, items, total_price, conversation_id, estimated_ready_time, metadata, now) ==
    IF ~Serializable(items)
    THEN [table |-> table, ret |-> Return(FALSE)]
    ELSE [table |-> [o \in DOMAIN table \cup {order_id} |->
                        IF o = order_id
                        THEN OrderItem(order_id, customer_id, customer_name, items, total_price,
                                       conversation_id, estimated_ready_time, metadata, now)
                        ELSE table[o]],
          ret |-> Return(TRUE)]

\* Decimal attributes of the item become floats (top level only)
_deserialize_item(item) ==
    [a \in DOMAIN item |-> IF a = "total_price" THEN float(item[a]) ELSE item[a]]

\* get_item
OrderManagerDynamoDB_get_order(order_id) ==
    IF order_id \notin DOMAIN table THEN None ELSE _deserialize_item(table[order_id])

\* table.get_item: the response, with an Item for a stored key, or the
\* transport failure
get_item(order_id, outcome) ==
    IF outcome # "answered" THEN Raise(outcome)
    ELSE IF order_id \in DOMAIN table THEN Return([Item |-> table[order_id]])
    ELSE Return([ResponseMetadata |-> TRUE])

\* get_order for a request that ends in outcome: except Exception returns None
get_order(order_id, outcome) ==
    LET response == get_item(order_id, outcome)
    IN  IF response.exc # "none" THEN None
        ELSE IF "Item" \notin DOMAIN response.val THEN None
        ELSE _deserialize_item(response.val.Item)

\* a global secondary index with hash key attr and sort key created_at: the
\* items that carry both attributes, for one value of the hash key
IndexPartition(attr, value) ==
    {o \in DOMAIN table :
        /\ attr \in DOMAIN table[o]
        /\ "created_at" \in DOMAIN table[o]
        /\ table[o][attr] = value}

customer_name_index(customer_name) == IndexPartition("customer_name", customer_name)
customer_id_index(customer_id) == IndexPartition("customer_id", customer_id)

\* item.get('status') == status applied to a list of items
FilterStatus(items, status) ==
    LET Keep(item) == "status" \in DOMAIN item /\ item.status = status
    IN  SelectSeq(items, Keep)

\* table.query on customer_name_index, ScanIndexForward=False, Limit=limit when
\* limit is truthy; the status filter is applied in python to the items the
\* query returned.  The value is the set of results the query can give.
OrderManagerDynamoDB_get_customer_orders(customer_name, limit, status) ==
    LET created_at == [o \in {x \in DOMAIN table : "created_at" \in DOMAIN table[x]} |->
                             table[o].created_at]
        Items(s) == [i \in 1..Len(Take(s, limit)) |-> _deserialize_item(table[s[i]])]
    IN  {IF status # NoneStr THEN FilterStatus(Items(s), status) ELSE Items(s) :
         s \in NewestFirst(customer_name_index(customer_name), created_at)}

status_index(status) == IndexPartition("status", status)

\* table.query on status_index, ScanIndexForward=True, Limit=limit when limit
\* is truthy.  The value is the set of results the query can give.
OrderManagerDynamoDB_get_orders_by_status(status, limit) ==
    LET created_at == [o \in {x \in DOMAIN table : "created_at" \in DOMAIN table[x]} |->
                             table[o].created_at]
    IN  {[i \in 1..Len(Take(s, limit)) |-> _deserialize_item(table[s[i]])] :
         s \in OldestFirst(status_index(status), created_at)}

\* table.query on customer_id_index, ScanIndexForward=False, Limit=1; any
\* exception (the table has no such index) gives None
OrderManagerDynamoDB_get_customer_last_order(customer_id, has_customer_id_index) ==
    LET created_at == [o \in {x \in DOMAIN table : "created_at" \in DOMAIN table[x]} |->
                             table[o].created_at]
    IN  IF ~has_customer_id_index THEN {None}
        ELSE {IF s = <<>> THEN None ELSE _deserialize_item(table[s[1]]) :
                s \in NewestFirst(customer_id_index(customer_id), created_at)}

\* update_item SET ...: the attributes are set on the item with that key, and an
\* item with only the key and these attributes is created when there is none
UpdateItem(order_id, attrs) ==
    [o \in DOMAIN table \cup {order_id} |->
        [a \in (IF o \in DOMAIN table THEN DOMAIN table[o] ELSE {"order_id"})
                 \cup (IF o = order_id THEN DOMAIN attrs ELSE {}) |->
            IF o = order_id /\ a \in DOMAIN attrs THEN attrs[a]
            ELSE IF o \in DOMAIN table THEN table[o][a]
            ELSE order_id]]

\* Mutant (C15): an update that refuses to leave a terminal status.
Mutant_update_order_status_terminal(order_id, status, now) ==
    IF /\ order_id \in DOMAIN table
       /\ "status" \in DOMAIN table[order_id]
       /\ table[order_id].status \in {"Completed", "Cancelled"}
    THEN [table |-> table, ret |-> Return(FALSE)]
    ELSE [table |-> UpdateItem(order_id, [status |-> status, updated_at |-> isoformat(now)]),
          ret |-> Return(TRUE)]

OrderManagerDynamoDB_update_order_status(order_id, status, now) ==
    [table |-> UpdateItem(order_id, [status |-> status, updated_at |-> isoformat(now)]),
     ret |-> Return(TRUE)]

OrderManagerDynamoDB_update_order_ready_time(order_id, estimated_ready_time, now) ==
    [table |-> UpdateItem(order_id, [estimated_ready_time |-> estimated_ready_time,
                                     updated_at |-> isoformat(now)]),
     ret |-> Return(TRUE)]

\* delete_item: no error when the key is absent
OrderManagerDynamoDB_delete_order(order_id) ==
    [table |-> Without(table, order_id), ret |-> Return(TRUE)]

OrderManagerDynamoDB_clear_all_orders == [table |-> <<>>]

\* table.scan(): the items in the table's own order
RECURSIVE Scan(_)
Scan(ids) ==
    IF ids = {} THEN <<>>
    ELSE LET o == CHOOSE x \in ids : TRUE
         IN  <<table[o]>> \o Scan(ids \ {o})

\* item.get(name, default) after _deserialize_item
Get(item, name, default) ==
    IF name \in DOMAIN item THEN _deserialize_item(item)[name] ELSE default

RECURSIVE SumRevenue(_)
SumRevenue(items) ==
    IF items = <<>> THEN 0
    ELSE Get(Head(items), "total_price", 0) + SumRevenue(Tail(items))

\* get_order_statistics: the scan comes in pages of page_size items (DynamoDB
\* ends a page at 1 MB).  total_orders is taken from the first page only;
\* revenue, status counts and customers are accumulated over every page.
OrderManagerDynamoDB_get_order_statistics(page_size) ==
    LET all == Scan(DOMAIN table)
        first == SubSeq(all, 1, IF page_size < Len(all) THEN page_size ELSE Len(all))
        statuses == {Get(all[i], "status", "Unknown") : i \in 1..Len(all)}
    IN  [total_orders |-> Len(first),
         total_revenue |-> Round2(SumRevenue(all)),
         status_breakdown |->
            [st \in statuses |->
                Cardinality({i \in 1..Len(all) : Get(all[i], "status", "Unknown") = st})],
         unique_customers |->
            Cardinality({Get(all[i], "customer_id", NoneStr) : i \in 1..Len(all)} \ {NoneStr, ""})]

-----------------------------------------------------------------------------
(* Spec: sequential calls on the conversation stores, each issued to the    *)
(* SQLite adapter and to the S3 adapter with the same arguments and the     *)
(* same clock readings.                                                     *)

NoCall == [op |-> "none"]

\* os.environ with none of the variables the factories read set, and the
\* main.py process before load_dotenv()
NoEnviron ==
    [CONVERSATION_STORAGE |-> NoneStr, S3_BUCKET_NAME |-> NoneStr, ORDER_MANAGER_TYPE |-> NoneStr]
NotStarted ==
    [loaded |-> FALSE, environ |-> NoEnviron, conversation_id |-> NoneStr, turn |-> "idle"]

Init ==
    /\ clock = 0
    /\ conversations = <<>>
    /\ messages = <<>>
    /\ sqlite_sequence = 0
    /\ bucket = <<>>
    /\ uuids = 0
    /\ res = NoCall
    /\ orders = <<>>
    /\ order_items = <<>>
    /\ item_sequence = 0
    /\ table = <<>>
    /\ placed = {}
    /\ calls = 0
    /\ pc = [p \in 1..2 |-> "idle"]
    /\ local = [p \in 1..2 |-> NoCall]
    /\ app = NotStarted

\* what held before the call, for the record of the call
ConvPre(c) ==
    [rel |-> c \in DOMAIN conversations,
     s3 |-> _get_conversation_key(c) \in DOMAIN bucket,
     s3msgs |-> _get_messages_key(c) \in DOMAIN bucket]

CreateConversation ==
    \E c \in ConvIds, cust \in Customers, now \in clock..MaxClock :
        LET r == ConversationManager_create_conversation(
                     c, cust.customer_id, cust.customer_name, cust.metadata, now)
            s == ConversationManagerS3_create_conversation(
                     c, cust.customer_id, cust.customer_name, cust.metadata, now)
        IN  /\ clock' = now
            /\ conversations' = r.conversations
            /\ bucket' = s.bucket
            /\ res' = [op |-> "create_conversation", id |-> c, arg |-> cust, now |-> now,
                       pre |-> ConvPre(c), rel |-> r.ret, s3 |-> s.ret]
            /\ UNCHANGED <<app, messages, sqlite_sequence, uuids, orderVars, concVars>>

AddMessage ==
    \E c \in ConvIds, m \in Payloads, timestamp \in clock..MaxClock :
      \E now \in timestamp..MaxClock :
        LET r == ConversationManager_add_message(
                     c, m.sender_type, m.content, m.sender_name, m.metadata, timestamp, now)
            s == ConversationManagerS3_add_message(
                     c, m.sender_type, m.content, m.sender_name, m.metadata, timestamp, now)
        IN  /\ sqlite_sequence < MaxMessages
            /\ clock' = now
            /\ messages' = r.messages
            /\ sqlite_sequence' = r.sqlite_sequence
            /\ conversations' = r.conversations
            /\ bucket' = s.bucket
            /\ uuids' = s.uuids
            /\ res' = [op |-> "add_message", id |-> c, arg |-> m, timestamp |-> timestamp,
                       now |-> now, pre |-> ConvPre(c), rel |-> r.ret, s3 |-> s.ret]
            /\ UNCHANGED <<app, orderVars, concVars>>

DeleteConversation ==
    \E c \in ConvIds :
        LET r == ConversationManager_delete_conversation(c)
            s == ConversationManagerS3_delete_conversation(c)
        IN  /\ messages' = r.messages
            /\ conversations' = r.conversations
            /\ bucket' = s.bucket
            /\ res' = [op |-> "delete_conversation", id |-> c,
                       pre |-> ConvPre(c), rel |-> r.ret, s3 |-> s.ret]
            /\ UNCHANGED <<app, clock, sqlite_sequence, uuids, orderVars, concVars>>

ClearAllData ==
    /\ messages' = ConversationManager_clear_all_data.messages
    /\ conversations' = ConversationManager_clear_all_data.conversations
    /\ bucket' = ConversationManagerS3_clear_all_data.bucket
    /\ res' = [op |-> "clear_all_data"]
    /\ UNCHANGED <<app, clock, sqlite_sequence, uuids, orderVars, concVars>>

Next ==
    \/ CreateConversation
    \/ AddMessage
    \/ DeleteConversation
    \/ ClearAllData

Spec == Init /\ [][Next]_vars

-----------------------------------------------------------------------------
(* ConcSpec: two clients call the S3 adapter on one conversation.  A step   *)
(* is one S3 request together with the local computation before it (the     *)
(* clock reading that stamps a message is a step of its own); the           *)
(* locals of a call live in local[p] until the call returns, and after the  *)
(* return local[p] keeps the call and its result.                           *)

Clients == {1, 2}
ConcConv == "c1"

\* create_conversation, lines 76-81: the existence check
CreateCheck(p) ==
    /\ pc[p] = "idle"
    /\ calls < MaxConcCalls
    /\ calls' = calls + 1
    /\ \E cust \in Customers :
         IF _load_json_from_s3(_get_conversation_key(ConcConv)) # None
         THEN /\ pc' = pc
              /\ local' = [local EXCEPT ![p] =
                    [op |-> "create_conversation", id |-> ConcConv, arg |-> cust,
                     ret |-> Return(FALSE)]]
         ELSE /\ pc' = [pc EXCEPT ![p] = "create_checked"]
              /\ local' = [local EXCEPT ![p] =
                    [op |-> "create_conversation", id |-> ConcConv, arg |-> cust]]
    /\ UNCHANGED <<app, clock, convVars, res, orders, order_items, item_sequence, table, placed>>

\* create_conversation, lines 83-95: now, and the empty messages document
CreatePutMessages(p) ==
    /\ pc[p] = "create_checked"
    /\ \E now \in clock..MaxClock :
         /\ clock' = now
         /\ local' = [local EXCEPT ![p] =
               [op |-> local[p].op, id |-> local[p].id, arg |-> local[p].arg, now |-> now]]
    /\ bucket' = _save_json_to_s3(bucket, _get_messages_key(local[p].id), [messages |-> <<>>])
    /\ pc' = [pc EXCEPT ![p] = "create_messages_saved"]
    /\ UNCHANGED <<app, conversations, messages, sqlite_sequence, uuids, res, orderVars>>

\* create_conversation, line 97: the metadata document, and the return
CreatePutMetadata(p) ==
    /\ pc[p] = "create_messages_saved"
    /\ bucket' = _save_json_to_s3(bucket, _get_conversation_key(local[p].id),
            [id |-> local[p].id,
             customer_id |-> local[p].arg.customer_id,
             customer_name |-> local[p].arg.customer_name,
             created_at |-> isoformat(local[p].now),
             updated_at |-> isoformat(local[p].now),
             metadata |-> IF Truthy(local[p].arg.metadata)
                          THEN local[p].arg.metadata ELSE EmptyDict])
    /\ pc' = [pc EXCEPT ![p] = "idle"]
    /\ local' = [local EXCEPT ![p] =
          [op |-> local[p].op, id |-> local[p].id, arg |-> local[p].arg, ret |-> Return(TRUE)]]
    /\ UNCHANGED <<app, clock, conversations, messages, sqlite_sequence, uuids, res, orderVars>>

\* add_message, lines 114-115: uuid4 and the clock reading of the timestamp
AddStart(p) ==
    /\ pc[p] = "idle"
    /\ calls < MaxConcCalls
    /\ calls' = calls + 1
    /\ \E m \in Payloads, timestamp \in clock..MaxClock :
         /\ clock' = timestamp
         /\ local' = [local EXCEPT ![p] =
               [op |-> "add_message", id |-> ConcConv, pre |-> ConvPre(ConcConv),
                message |-> S3Message(uuid4(uuids + 1), ConcConv, m.sender_type,
                                      m.content, m.sender_name, m.metadata, timestamp)]]
    /\ uuids' = uuids + 1
    /\ pc' = [pc EXCEPT ![p] = "add_started"]
    /\ UNCHANGED <<app, conversations, messages, sqlite_sequence, bucket, res,
                   orders, order_items, item_sequence, table, placed>>

\* add_message, lines 118-133: the read of the messages document
AddLoad(p) ==
    /\ pc[p] = "add_started"
    /\ LET loaded == _load_json_from_s3(_get_messages_key(local[p].id))
       IN  local' = [local EXCEPT ![p] =
               [op |-> local[p].op, id |-> local[p].id, pre |-> local[p].pre,
                messages_data |-> IF loaded = None THEN [messages |-> <<>>] ELSE loaded,
                message |-> local[p].message]]
    /\ pc' = [pc EXCEPT ![p] = "add_loaded"]
    /\ UNCHANGED <<app, clock, convVars, res, orderVars>>

\* Mutant (C4): a conditional write, the message is appended to what the
\* document holds at the time of the write.
Mutant_add_message_put_merges(p) ==
    LET key == _get_messages_key(local[p].id)
        current == IF key \in DOMAIN bucket THEN bucket[key].messages ELSE <<>>
    IN  _save_json_to_s3(bucket, key, [messages |-> Append(current, local[p].message)])

\* add_message, lines 134-137: append in memory, put_object of the whole list
add_message_put(p) ==
    _save_json_to_s3(bucket, _get_messages_key(local[p].id),
        [messages |-> Append(local[p].messages_data.messages, local[p].message)])

AddPut(p) ==
    /\ pc[p] = "add_loaded"
    /\ bucket' = add_message_put(p)
    /\ pc' = [pc EXCEPT ![p] = "add_saved"]
    /\ UNCHANGED <<app, clock, conversations, messages, sqlite_sequence, uuids, res, local, orderVars>>

\* add_message, lines 140-141: the read of the metadata document
AddLoadConversation(p) ==
    /\ pc[p] = "add_saved"
    /\ local' = [local EXCEPT ![p] =
          [op |-> local[p].op, id |-> local[p].id, pre |-> local[p].pre,
           message |-> local[p].message,
           conversation |-> _load_json_from_s3(_get_conversation_key(local[p].id))]]
    /\ pc' = [pc EXCEPT ![p] = "add_conversation_loaded"]
    /\ UNCHANGED <<app, clock, convVars, res, orderVars>>

\* add_message, lines 142-146: updated_at = now and put_object when there is a
\* metadata document; the return of the message id
AddTouch(p) ==
    /\ pc[p] = "add_conversation_loaded"
    /\ \E now \in clock..MaxClock :
         /\ clock' = IF local[p].conversation # None THEN now ELSE clock
         /\ bucket' = IF local[p].conversation # None
                      THEN _save_json_to_s3(bucket, _get_conversation_key(local[p].id),
                              [local[p].conversation EXCEPT !.updated_at = isoformat(now)])
                      ELSE bucket
    /\ pc' = [pc EXCEPT ![p] = "idle"]
    /\ local' = [local EXCEPT ![p] =
          [op |-> local[p].op, id |-> local[p].id, pre |-> local[p].pre,
           message |-> local[p].message, ret |-> Return(local[p].message.id)]]
    /\ UNCHANGED <<app, conversations, messages, sqlite_sequence, uuids, res, orderVars>>

\* delete_conversation, lines 310-312: the existence check
DeleteCheck(p) ==
    /\ pc[p] = "idle"
    /\ calls < MaxConcCalls
    /\ calls' = calls + 1
    /\ IF _load_json_from_s3(_get_conversation_key(ConcConv)) = None
       THEN /\ pc' = pc
            /\ local' = [local EXCEPT ![p] =
                  [op |-> "delete_conversation", id |-> ConcConv, ret |-> Return(FALSE)]]
       ELSE /\ pc' = [pc EXCEPT ![p] = "delete_checked"]
            /\ local' = [local EXCEPT ![p] = [op |-> "delete_conversation", id |-> ConcConv]]
    /\ UNCHANGED <<app, clock, convVars, res, orders, order_items, item_sequence, table, placed>>

\* delete_conversation, line 315: delete_object of the metadata document
DeleteMetadata(p) ==
    /\ pc[p] = "delete_checked"
    /\ bucket' = Without(bucket, _get_conversation_key(local[p].id))
    /\ pc' = [pc EXCEPT ![p] = "delete_metadata_deleted"]
    /\ UNCHANGED <<app, clock, conversations, messages, sqlite_sequence, uuids, res, local, orderVars>>

\* delete_conversation, lines 318-321: delete_object of the messages document
DeleteMessages(p) ==
    /\ pc[p] = "delete_metadata_deleted"
    /\ bucket' = Without(bucket, _get_messages_key(local[p].id))
    /\ pc' = [pc EXCEPT ![p] = "idle"]
    /\ local' = [local EXCEPT ![p] =
          [op |-> local[p].op, id |-> local[p].id, ret |-> Return(TRUE)]]
    /\ UNCHANGED <<app, clock, conversations, messages, sqlite_sequence, uuids, res, orderVars>>

ConcNext ==
    \E p \in Clients :
        \/ CreateCheck(p)
        \/ CreatePutMessages(p)
        \/ CreatePutMetadata(p)
        \/ AddStart(p)
        \/ AddLoad(p)
        \/ AddPut(p)
        \/ AddLoadConversation(p)
        \/ AddTouch(p)
        \/ DeleteCheck(p)
        \/ DeleteMetadata(p)
        \/ DeleteMessages(p)

ConcSpec == Init /\ [][ConcNext]_vars

-----------------------------------------------------------------------------
(* place_order tool: bound to OrderManager() (SQLite) at import *)

MENU_PRICES ==
    [n \in {"Margherita Pizza", "Pepperoni Pizza", "Chicken Alfredo Pasta",
            "Caesar Salad", "Chocolate Lava Cake"} |->
        CASE n = "Margherita Pizza" -> PyFloat(12000)
          [] n = "Pepperoni Pizza" -> PyFloat(14000)
          [] n = "Chicken Alfredo Pasta" -> PyFloat(16000)
          [] n = "Caesar Salad" -> PyFloat(10000)
          [] n = "Chocolate Lava Cake" -> PyFloat(8000)]

\* str.strip() on the names of this model
strip(name) == IF name \in {"", " "} THEN "" ELSE name

\* the validation of one requested item: "" when it is valid
ItemError(item) ==
    IF strip(item.item_name) = "" THEN "Empty item name provided"
    ELSE IF ~item.quantity_is_int \/ item.quantity <= 0 THEN "Invalid quantity"
    ELSE IF strip(item.item_name) \notin DOMAIN MENU_PRICES THEN "not available in the menu"
    ELSE ""

\* Mutant (C20): validation that stops at the first invalid item.
Mutant_invalid_items_first(items) ==
    LET bad == {i \in 1..Len(items) : ItemError(items[i]) # ""}
    IN  IF bad = {} THEN <<>>
        ELSE <<ItemError(items[CHOOSE i \in bad : \A j \in bad : i <= j])>>

\* invalid_items: one entry per invalid item, in request order
RECURSIVE invalid_items(_)
invalid_items(items) ==
    IF items = <<>> THEN <<>>
    ELSE (IF ItemError(Head(items)) = "" THEN <<>> ELSE <<ItemError(Head(items))>>)
         \o invalid_items(Tail(items))

\* order_items: the valid items with their menu price
priced_items(items) ==
    [i \in 1..Len(items) |->
        [item_name |-> strip(items[i].item_name),
         quantity |-> items[i].quantity,
         unit_price |-> MENU_PRICES[strip(items[i].item_name)]]]

PlaceOrderMetadata ==
    [dict |-> {<<"source", "place_order_tool">>, <<"platform", "restaurant_assistant">>}]

\* Mutant (C6): the total adds the unit prices and forgets the quantities.
RECURSIVE SumUnitPrices(_)
SumUnitPrices(items) ==
    IF items = <<>> THEN 0 ELSE Head(items).unit_price.v + SumUnitPrices(Tail(items))

Mutant_total_price_rounded(order_items_) == Round2(SumUnitPrices(order_items_))

\* total_price accumulated in the loop, then round(total_price, 2)
total_price_rounded(order_items_) == Round2(SumItems(order_items_))

\* place_order(customer_name, items); order_id is the uuid4 prefix it draws
place_order(customer_name, items, order_id, now) ==
    LET unchanged == [orders |-> orders, order_items |-> order_items,
                      item_sequence |-> item_sequence]
    IN  IF customer_name = ""
        THEN unchanged @@ [ret |-> [success |-> FALSE, errors |-> <<>>,
                                    message |-> "Customer  name is required."]]
        ELSE IF Len(items) = 0
        THEN unchanged @@ [ret |-> [success |-> FALSE, errors |-> <<>>,
                                    message |-> "At least one item must be ordered."]]
        ELSE IF invalid_items(items) # <<>>
        THEN unchanged @@ [ret |-> [success |-> FALSE, errors |-> invalid_items(items),
                                    message |-> "Order could not be placed"]]
        ELSE LET c == OrderManager_create_order(
                          order_id, "", customer_name, priced_items(items),
                          total_price_rounded(priced_items(items)), NoneStr,
                          "now+15min", PlaceOrderMetadata, now)
             IN  [orders |-> c.orders, order_items |-> c.order_items,
                  item_sequence |-> c.item_sequence,
                  ret |-> IF c.ret.val
                          THEN [success |-> TRUE, order_id |-> order_id,
                                total_price |-> total_price_rounded(priced_items(items))]
                          ELSE [success |-> FALSE, errors |-> <<>>,
                                message |-> "Failed to create order in database."]]

-----------------------------------------------------------------------------
(* OrderSpec: sequential calls on the order stores, each issued to the      *)
(* SQLite adapter and to the DynamoDB adapter with the same arguments and   *)
(* the same clock reading; place_order calls reach the SQLite adapter only. *)

\* items as callers of create_order pass them
Coffee == [item_name |-> "Coffee", quantity |-> 2, unit_price |-> PyFloat(3500)]
Sandwich == [item_name |-> "Sandwich", quantity |-> 1, unit_price |-> PyFloat(8990)]
Tea == [item_name |-> "Tea", quantity |-> 3, unit_price |-> PyInt(3000)]
Scone == [item_name |-> "Scone", quantity |-> 1, unit_price |-> PyInt(2000)]

\* the arguments of a create_order call besides order_id and total_price
OrderInputs ==
    {[customer_id |-> "CUST-001", customer_name |-> "Alice", items |-> <<Coffee, Sandwich>>,
      estimated_ready_time |-> "15:30", metadata |-> [dict |-> {<<"table", 5>>}],
      conversation_id |-> NoneStr],
     [customer_id |-> "CUST-002", customer_name |-> "Bob", items |-> <<Tea, Scone>>,
      estimated_ready_time |-> NoneStr, metadata |-> None, conversation_id |-> "c1"],
     [customer_id |-> "CUST-002", customer_name |-> "Bob", items |-> <<Scone>>,
      estimated_ready_time |-> NoneStr, metadata |-> None, conversation_id |-> NoneStr]}

\* the total a caller passes: the rounded sum of its items, or another amount
Surcharge == 1000
TotalChoices(items) == {Round2(SumItems(items)), Round2(SumItems(items)) + Surcharge}

\* the requests made to place_order
Requested(name, quantity) ==
    [item_name |-> name, quantity |-> quantity, quantity_is_int |-> TRUE]
Requests ==
    {[customer_name |-> "Alice",
      items |-> <<Requested("Margherita Pizza", 2), Requested("Caesar Salad", 1)>>],
     [customer_name |-> "Bob", items |-> <<Requested("Chocolate Lava Cake", 3)>>],
     [customer_name |-> "Bob",
      items |-> <<Requested(" ", 1), Requested("Sushi", 1), Requested("Caesar Salad", 0),
                  [item_name |-> "Pepperoni Pizza", quantity |-> 1, quantity_is_int |-> FALSE]>>],
     [customer_name |-> "Bob", items |-> <<>>],
     [customer_name |-> "", items |-> <<Requested("Caesar Salad", 1)>>]}

\* the statuses callers of update_order_status pass in this model
StatusInputs == {"Confirmed", "Ready for pickup", "Cancelled"}

\* the customer names and customer ids that appear in the calls of OrderSpec
CustomerNames == {"Alice", "Bob"}
CustomerIds == {"CUST-001", "CUST-002", ""}

OrderPre(o) == [rel |-> o \in DOMAIN orders, dyn |-> o \in DOMAIN table]

CreateOrder ==
    \E o \in OrderIds, a \in OrderInputs, now \in clock..MaxClock :
      \E total_price \in TotalChoices(a.items) :
        LET r == OrderManager_create_order(
                     o, a.customer_id, a.customer_name, a.items, total_price,
                     a.conversation_id, a.estimated_ready_time, a.metadata, now)
            d == OrderManagerDynamoDB_create_order(
                     o, a.customer_id, a.customer_name, a.items, total_price,
                     a.conversation_id, a.estimated_ready_time, a.metadata, now)
        IN  /\ calls < MaxOrderCalls
            /\ calls' = calls + 1
            /\ clock' = now
            /\ orders' = r.orders
            /\ order_items' = r.order_items
            /\ item_sequence' = r.item_sequence
            /\ table' = d.table
            /\ res' = [op |-> "create_order", id |-> o,
                       pre |-> OrderPre(o), rel |-> r.ret, dyn |-> d.ret]
            /\ UNCHANGED <<app, placed, convVars, concVars>>

UpdateOrderStatus ==
    \E o \in OrderIds, status \in StatusInputs, now \in clock..MaxClock :
        LET r == OrderManager_update_order_status(o, status, now)
            d == OrderManagerDynamoDB_update_order_status(o, status, now)
        IN  /\ calls < MaxOrderCalls
            /\ calls' = calls + 1
            /\ clock' = now
            /\ orders' = r.orders
            /\ table' = d.table
            /\ res' = [op |-> "update_order_status", id |-> o, status |-> status,
                       pre |-> OrderPre(o), rel |-> r.ret, dyn |-> d.ret]
            /\ UNCHANGED <<app, order_items, item_sequence, placed, convVars, concVars>>

UpdateOrderReadyTime ==
    \E o \in OrderIds, now \in clock..MaxClock :
        LET r == OrderManager_update_order_ready_time(o, "16:00", now)
            d == OrderManagerDynamoDB_update_order_ready_time(o, "16:00", now)
        IN  /\ calls < MaxOrderCalls
            /\ calls' = calls + 1
            /\ clock' = now
            /\ orders' = r.orders
            /\ table' = d.table
            /\ res' = [op |-> "update_order_ready_time", id |-> o,
                       pre |-> OrderPre(o), rel |-> r.ret, dyn |-> d.ret]
            /\ UNCHANGED <<app, order_items, item_sequence, placed, convVars, concVars>>

DeleteOrder ==
    \E o \in OrderIds :
        LET r == OrderManager_delete_order(o)
            d == OrderManagerDynamoDB_delete_order(o)
        IN  /\ calls < MaxOrderCalls
            /\ calls' = calls + 1
            /\ orders' = r.orders
            /\ order_items' = r.order_items
            /\ table' = d.table
            /\ placed' = placed \ {o}
            /\ res' = [op |-> "delete_order", id |-> o,
                       pre |-> OrderPre(o), rel |-> r.ret, dyn |-> d.ret]
            /\ UNCHANGED <<app, clock, item_sequence, convVars, concVars>>

ClearAllOrders ==
    /\ calls < MaxOrderCalls
    /\ calls' = calls + 1
    /\ orders' = OrderManager_clear_all_orders.orders
    /\ order_items' = OrderManager_clear_all_orders.order_items
    /\ table' = OrderManagerDynamoDB_clear_all_orders.table
    /\ placed' = {}
    /\ res' = [op |-> "clear_all_orders"]
    /\ UNCHANGED <<app, clock, item_sequence, convVars, concVars>>

GetOrderStatistics ==
    \E page_size \in 1..MaxPageItems :
        /\ calls < MaxOrderCalls
        /\ calls' = calls + 1
        /\ res' = [op |-> "get_order_statistics", page_size |-> page_size,
                   rel |-> Return(OrderManager_get_order_statistics),
                   dyn |-> Return(OrderManagerDynamoDB_get_order_statistics(page_size))]
        /\ UNCHANGED <<app, clock, orders, order_items, item_sequence, table, placed,
                       convVars, concVars>>

PlaceOrder ==
    \E q \in Requests, o \in OrderIds, now \in clock..MaxClock :
        LET r == place_order(q.customer_name, q.items, o, now)
        IN  /\ calls < MaxOrderCalls
            /\ calls' = calls + 1
            /\ clock' = now
            /\ orders' = r.orders
            /\ order_items' = r.order_items
            /\ item_sequence' = r.item_sequence
            /\ placed' = IF r.ret.success THEN placed \cup {o} ELSE placed
            /\ res' = [op |-> "place_order", id |-> o, arg |-> q,
                       pre |-> OrderPre(o), rel |-> Return(r.ret)]
            /\ UNCHANGED <<app, table, convVars, concVars>>

OrderNext ==
    \/ CreateOrder
    \/ UpdateOrderStatus
    \/ UpdateOrderReadyTime
    \/ DeleteOrder
    \/ ClearAllOrders
    \/ GetOrderStatistics
    \/ PlaceOrder

OrderSpec == Init /\ [][OrderNext]_vars

-----------------------------------------------------------------------------
(* StatusSpec: one create_order call, then update_order_status calls with   *)
(* every member of OrderStatus, each issued to both order adapters.         *)

\* the status get_order shows in each adapter, NoneStr where it shows none
StatusNow(o) ==
    [rel |-> IF o \in DOMAIN orders THEN OrderManager_get_order(o).status ELSE NoneStr,
     dyn |-> IF o \in DOMAIN table /\ "status" \in DOMAIN table[o]
             THEN OrderManagerDynamoDB_get_order(o).status ELSE NoneStr]

FirstCreateOrder == calls = 0 /\ CreateOrder

UpdateAnyStatus ==
    \E o \in OrderIds, status \in OrderStatus, now \in clock..MaxClock :
        LET r == OrderManager_update_order_status(o, status, now)
            d == OrderManagerDynamoDB_update_order_status(o, status, now)
        IN  /\ calls > 0
            /\ calls < MaxStatusCalls
            /\ calls' = calls + 1
            /\ clock' = now
            /\ orders' = r.orders
            /\ table' = d.table
            /\ res' = [op |-> "update_order_status", id |-> o, status |-> status,
                       pre |-> OrderPre(o), from |-> StatusNow(o),
                       rel |-> r.ret, dyn |-> d.ret]
            /\ UNCHANGED <<app, order_items, item_sequence, placed, convVars, concVars>>

StatusNext ==
    \/ FirstCreateOrder
    \/ UpdateAnyStatus

StatusSpec == Init /\ [][StatusNext]_vars

-----------------------------------------------------------------------------
(* FaultSpec: reads of the S3 adapter and of the DynamoDB adapter whose     *)
(* request the backend answers or fails to answer, on stores filled by      *)
(* create_conversation and create_order.                                    *)

ReadConversation ==
    \E c \in ConvIds, outcome \in Outcomes :
        /\ res' = [op |-> "get_conversation", id |-> c, outcome |-> outcome,
                   stored |-> _get_conversation_key(c) \in DOMAIN bucket,
                   ret |-> Return(get_conversation(c, outcome))]
        /\ UNCHANGED <<app, clock, convVars, orderVars, concVars>>

ReadOrder ==
    \E o \in OrderIds, outcome \in Outcomes :
        /\ res' = [op |-> "get_order", id |-> o, outcome |-> outcome,
                   stored |-> o \in DOMAIN table,
                   ret |-> Return(get_order(o, outcome))]
        /\ UNCHANGED <<app, clock, convVars, orderVars, concVars>>

FaultNext ==
    \/ CreateConversation
    \/ FirstCreateOrder
    \/ ReadConversation
    \/ ReadOrder

FaultSpec == Init /\ [][FaultNext]_vars

-----------------------------------------------------------------------------
(* WiringSpec: one run of main.py after another.  load_dotenv() fixes the   *)
(* environment, main.get_conversation finds or creates the customer's       *)
(* conversation through the manager ConversationManagerFactory.create()     *)
(* returned, RestaurantAssistant.run appends the user's message and the     *)
(* agent's answer, and the tools place_order and get_order_status run when  *)
(* the agents call them.                                                    *)

\* main.py: _user_id
_user_id == "Carlos"

\* os.getenv(name, default)
getenv(environ, name, default) ==
    IF environ[name] = NoneStr THEN default ELSE environ[name]

\* str.lower() on the values of this model
lower(text) ==
    CASE text = "S3" -> "s3"
      [] text = "SQLite" -> "sqlite"
      [] text = "DynamoDB" -> "dynamodb"
      [] OTHER -> text

\* Mutant (C19): a factory that falls back to SQLite for an unknown storage
\* type.
Mutant_create_falls_back(environ) ==
    LET storage_type == lower(getenv(environ, "CONVERSATION_STORAGE", "sqlite"))
        bucket_name == getenv(environ, "S3_BUCKET_NAME", NoneStr)
    IN  IF storage_type = "s3"
        THEN IF bucket_name \in {NoneStr, ""}
             THEN Raise("ValueError")
             ELSE Return([class |-> "ConversationManagerS3", bucket_name |-> bucket_name])
        ELSE Return([class |-> "ConversationManager"])

\* ConversationManagerFactory.create(): the manager for CONVERSATION_STORAGE,
\* ValueError for S3 without a bucket name and for an unknown storage type
ConversationManagerFactory_create(environ) ==
    LET storage_type == lower(getenv(environ, "CONVERSATION_STORAGE", "sqlite"))
        bucket_name == getenv(environ, "S3_BUCKET_NAME", NoneStr)
    IN  IF storage_type = "s3"
        THEN IF bucket_name \in {NoneStr, ""}
             THEN Raise("ValueError")
             ELSE Return([class |-> "ConversationManagerS3", bucket_name |-> bucket_name])
        ELSE IF storage_type = "sqlite"
        THEN Return([class |-> "ConversationManager"])
        ELSE Raise("ValueError")

\* OrderManagerType(value): the enum member with this value, or ValueError
OrderManagerType(value) ==
    IF value \in {"sqlite", "dynamodb"} THEN Return(value) ELSE Raise("ValueError")

\* OrderManagerFactory.create(manager_type)
OrderManagerFactory_create(manager_type) ==
    IF manager_type = "sqlite" THEN Return([class |-> "OrderManager"])
    ELSE IF manager_type = "dynamodb" THEN Return([class |-> "OrderManagerDynamoDB"])
    ELSE Raise("ValueError")

\* OrderManagerFactory.create_from_env(): the manager for ORDER_MANAGER_TYPE,
\* ValueError for a value that is no OrderManagerType
OrderManagerFactory_create_from_env(environ) ==
    LET manager_type_str == lower(getenv(environ, "ORDER_MANAGER_TYPE", "sqlite"))
        manager_type == OrderManagerType(manager_type_str)
    IN  IF manager_type.exc # "none" THEN Raise("ValueError")
        ELSE OrderManagerFactory_create(manager_type.val)

\* the store a factory result selects
Selected(manager) ==
    CASE manager.val.class = "ConversationManagerS3" -> "s3"
      [] manager.val.class = "OrderManagerDynamoDB" -> "dynamodb"
      [] OTHER -> "sqlite"

\* the environments load_dotenv() leaves in this model: every pair of
\* supported backends, with a bucket name
WiringEnvirons ==
    {[CONVERSATION_STORAGE |-> storage, S3_BUCKET_NAME |-> "b", ORDER_MANAGER_TYPE |-> manager_type] :
        storage \in {"sqlite", "s3"}, manager_type \in {"sqlite", "dynamodb"}}

\* get_customer_conversations, SQLite: the ids of the customer's
\* conversations, ORDER BY updated_at DESC (every order ties allow)
ConversationManager_get_customer_conversations(customer_id) ==
    LET updated_at == [c \in DOMAIN conversations |-> conversations[c].updated_at]
    IN  NewestFirst({c \in DOMAIN conversations : conversations[c].customer_id = customer_id},
                    updated_at)

\* get_customer_conversations, S3: the metadata documents of the customer,
\* sorted by updated_at descending (every order ties allow)
ConversationManagerS3_get_customer_conversations(customer_id) ==
    LET updated_at == [c \in {x \in ConvIds : _get_conversation_key(x) \in DOMAIN bucket} |->
                          bucket[_get_conversation_key(c)].updated_at]
    IN  NewestFirst({c \in ConvIds : /\ _get_conversation_key(c) \in DOMAIN bucket
                                     /\ bucket[_get_conversation_key(c)].customer_id = customer_id},
                    updated_at)

load_dotenv ==
    /\ ~app.loaded
    /\ \E environ \in WiringEnvirons :
          app' = [app EXCEPT !.loaded = TRUE, !.environ = environ]
    /\ UNCHANGED <<clock, convVars, res, orderVars, concVars>>

\* main.get_conversation(_user_id) on _conversation_manager
main_get_conversation ==
    /\ app.loaded
    /\ app.conversation_id = NoneStr
    /\ \E found \in (IF Selected(ConversationManagerFactory_create(app.environ)) = "s3"
                     THEN ConversationManagerS3_get_customer_conversations(_user_id)
                     ELSE ConversationManager_get_customer_conversations(_user_id)) :
         IF found # <<>>
         THEN /\ app' = [app EXCEPT !.conversation_id = found[1]]
              /\ res' = [op |-> "get_conversation", id |-> found[1], created |-> FALSE]
              /\ UNCHANGED <<clock, convVars, orderVars, concVars>>
         ELSE \E c \in ConvIds, now \in clock..MaxClock :
                LET r == ConversationManager_create_conversation(c, _user_id, _user_id, None, now)
                    s == ConversationManagerS3_create_conversation(c, _user_id, _user_id, None, now)
                IN  /\ app' = [app EXCEPT !.conversation_id = c]
                    /\ clock' = now
                    /\ IF Selected(ConversationManagerFactory_create(app.environ)) = "s3"
                       THEN bucket' = s.bucket /\ UNCHANGED conversations
                       ELSE conversations' = r.conversations /\ UNCHANGED bucket
                    /\ res' = [op |-> "get_conversation", id |-> c, created |-> TRUE]
                    /\ UNCHANGED <<messages, sqlite_sequence, uuids, orderVars, concVars>>

\* the message of the user and the answer of the planner
UserMessages == {"menu?", "my order?"}
AgentResponse == "here it is"

\* RestaurantAssistant.run up to the await: the user's message is saved through
\* self.conversation_manager = ConversationManager()
run_user_message ==
    \E message \in UserMessages, timestamp \in clock..MaxClock :
      \E now \in timestamp..MaxClock :
        LET r == ConversationManager_add_message(
                     app.conversation_id, "user", message, NoneStr, None, timestamp, now)
        IN  /\ app.conversation_id # NoneStr
            /\ app.turn = "idle"
            /\ sqlite_sequence + 2 <= MaxMessages
            /\ app' = [app EXCEPT !.turn = "planner"]
            /\ clock' = now
            /\ messages' = r.messages
            /\ sqlite_sequence' = r.sqlite_sequence
            /\ conversations' = r.conversations
            /\ res' = [op |-> "run", id |-> app.conversation_id, content |-> message]
            /\ UNCHANGED <<bucket, uuids, orderVars, concVars>>

\* RestaurantAssistant.run after the await: the agent's answer is saved
run_agent_response ==
    \E timestamp \in clock..MaxClock :
      \E now \in timestamp..MaxClock :
        LET r == ConversationManager_add_message(
                     app.conversation_id, "agent", AgentResponse, "RestaurantAssistant",
                     None, timestamp, now)
        IN  /\ app.turn = "planner"
            /\ app' = [app EXCEPT !.turn = "idle"]
            /\ clock' = now
            /\ messages' = r.messages
            /\ sqlite_sequence' = r.sqlite_sequence
            /\ conversations' = r.conversations
            /\ res' = [op |-> "run", id |-> app.conversation_id, content |-> AgentResponse]
            /\ UNCHANGED <<bucket, uuids, orderVars, concVars>>

\* the place_order tool, called by the order agent while the planner runs, on
\* the tool module's order_manager = OrderManager()
tool_place_order ==
    /\ app.turn = "planner"
    /\ PlaceOrder

\* the get_order_status tool, called while the planner runs: the last order
\* read through the tool module's order_manager
tool_get_order_status ==
    /\ app.turn = "planner"
    /\ \E customer_name \in CustomerNames :
       \E order \in OrderManager_get_customer_last_order(customer_name) :
          res' = [op |-> "get_order_status", customer_name |-> customer_name,
                  ret |-> IF order = None THEN [found |-> FALSE]
                          ELSE [found |-> TRUE, order_id |-> order.order_id,
                                status |-> order.status]]
    /\ UNCHANGED <<app, clock, convVars, orderVars, concVars>>

\* 'exit' ends the process; the stores keep what they hold
exit ==
    /\ app.loaded
    /\ app.turn = "idle"
    /\ app' = NotStarted
    /\ res' = NoCall
    /\ UNCHANGED <<clock, convVars, orderVars, concVars>>

WiringNext ==
    \/ load_dotenv
    \/ main_get_conversation
    \/ run_user_message
    \/ run_agent_response
    \/ tool_place_order
    \/ tool_get_order_status
    \/ exit

WiringSpec == Init /\ [][WiringNext]_vars

-----------------------------------------------------------------------------
(* FactorySpec: the environment variables are set to recognised and         *)
(* unrecognised values, and the two factories are called.                   *)

StorageValues == {NoneStr, "sqlite", "s3", "S3", "mysql", ""}
BucketValues == {NoneStr, "", "b"}
ManagerTypeValues == {NoneStr, "sqlite", "dynamodb", "DynamoDB", "s3", ""}

setenv ==
    /\ \/ \E value \in StorageValues :
             app' = [app EXCEPT !.environ.CONVERSATION_STORAGE = value]
       \/ \E value \in BucketValues :
             app' = [app EXCEPT !.environ.S3_BUCKET_NAME = value]
       \/ \E value \in ManagerTypeValues :
             app' = [app EXCEPT !.environ.ORDER_MANAGER_TYPE = value]
    /\ UNCHANGED <<clock, convVars, res, orderVars, concVars>>

create_managers ==
    /\ res' = [op |-> "create", environ |-> app.environ,
               conversation_manager |-> ConversationManagerFactory_create(app.environ),
               order_manager |-> OrderManagerFactory_create_from_env(app.environ)]
    /\ UNCHANGED <<app, clock, convVars, orderVars, concVars>>

FactoryNext ==
    \/ setenv
    \/ create_managers

FactorySpec == Init /\ [][FactoryNext]_vars

-----------------------------------------------------------------------------
(* TxSpec: two clients of the SQLite order store whose update_order_status   *)
(* and update_order_ready_time calls overlap.  A call opens a connection     *)
(* and reads the clock, executes its UPDATE inside a transaction (the        *)
(* statement takes SQLite's write lock, which one connection holds at a      *)
(* time, and its effect is private until the commit), and commits.  A call   *)
(* that cannot get the lock before the busy timeout ends in                  *)
(* sqlite3.OperationalError.                                                 *)

ReadyTimes == {"16:00", "17:00"}

\* the connection that holds the write lock, if any
WriteLocked == \E q \in Clients : pc[q] \in {"tx_executed", "create_inserting"}

\* sqlite3.connect and datetime.now() of update_order_status
StatusBegin(p) ==
    /\ pc[p] = "idle"
    /\ calls > 0
    /\ calls < MaxTxCalls
    /\ calls' = calls + 1
    /\ \E o \in OrderIds, status \in StatusInputs, now \in clock..MaxClock :
         /\ clock' = now
         /\ local' = [local EXCEPT ![p] =
               [op |-> "update_order_status", id |-> o, value |-> status, now |-> now,
                overlaps |-> \E q \in Clients : pc[q] # "idle"]]
    /\ pc' = [pc EXCEPT ![p] = "tx_begun"]
    /\ UNCHANGED <<app, convVars, res, orders, order_items, item_sequence, table, placed>>

\* sqlite3.connect and datetime.now() of update_order_ready_time
ReadyTimeBegin(p) ==
    /\ pc[p] = "idle"
    /\ calls > 0
    /\ calls < MaxTxCalls
    /\ calls' = calls + 1
    /\ \E o \in OrderIds, estimated_ready_time \in ReadyTimes, now \in clock..MaxClock :
         /\ clock' = now
         /\ local' = [local EXCEPT ![p] =
               [op |-> "update_order_ready_time", id |-> o, value |-> estimated_ready_time,
                now |-> now, overlaps |-> \E q \in Clients : pc[q] # "idle"]]
    /\ pc' = [pc EXCEPT ![p] = "tx_begun"]
    /\ UNCHANGED <<app, convVars, res, orders, order_items, item_sequence, table, placed>>

\* cursor.execute(UPDATE ...): the statement runs on the committed table once
\* the write lock is free
TxExecute(p) ==
    /\ pc[p] = "tx_begun"
    /\ ~WriteLocked
    /\ LET r == IF local[p].op = "update_order_status"
                THEN OrderManager_update_order_status(local[p].id, local[p].value, local[p].now)
                ELSE OrderManager_update_order_ready_time(local[p].id, local[p].value, local[p].now)
       IN  local' = [local EXCEPT ![p] =
               [op |-> local[p].op, id |-> local[p].id, value |-> local[p].value,
                overlaps |-> local[p].overlaps, orders |-> r.orders, ret |-> r.ret]]
    /\ pc' = [pc EXCEPT ![p] = "tx_executed"]
    /\ UNCHANGED <<app, clock, convVars, res, orderVars>>

\* cursor.execute(UPDATE ...) while another connection holds the write lock
\* until the busy timeout: sqlite3.OperationalError, database is locked
TxBusy(p) ==
    /\ pc[p] = "tx_begun"
    /\ WriteLocked
    /\ local' = [local EXCEPT ![p] =
          [op |-> local[p].op, id |-> local[p].id, value |-> local[p].value,
           overlaps |-> local[p].overlaps, ret |-> Raise("OperationalError")]]
    /\ pc' = [pc EXCEPT ![p] = "idle"]
    /\ UNCHANGED <<app, clock, convVars, res, orderVars>>

\* conn.commit() and the return of rowcount > 0
TxCommit(p) ==
    /\ pc[p] = "tx_executed"
    /\ orders' = local[p].orders
    /\ local' = [local EXCEPT ![p] =
          [op |-> local[p].op, id |-> local[p].id, value |-> local[p].value,
           overlaps |-> local[p].overlaps, ret |-> local[p].ret]]
    /\ pc' = [pc EXCEPT ![p] = "idle"]
    /\ UNCHANGED <<app, clock, convVars, res, order_items, item_sequence, table, placed, calls>>

TxNext ==
    \/ FirstCreateOrder
    \/ \E p \in Clients :
          \/ StatusBegin(p)
          \/ ReadyTimeBegin(p)
          \/ TxExecute(p)
          \/ TxBusy(p)
          \/ TxCommit(p)

TxSpec == Init /\ [][TxNext]_vars

-----------------------------------------------------------------------------
(* CreateTxSpec: two clients of the SQLite order store call create_order.   *)
(* The INSERT of the order row opens the transaction and takes the write    *)
(* lock; the rows a connection has inserted are private to it (local[p])    *)
(* until conn.commit(); leaving the with block by an exception rolls the    *)
(* transaction back.  orders, order_items and item_sequence are what other  *)
(* connections read.                                                        *)

\* items that make a later INSERT fail: a NULL item_name (NOT NULL
\* constraint, sqlite3.IntegrityError) and a dict without unit_price (KeyError)
NullNameItem == [item_name |-> NoneStr, quantity |-> 1, unit_price |-> PyInt(2000)]
NoPriceItem == [item_name |-> "Scone", quantity |-> 1]

CreateTxInputs ==
    {[customer_id |-> "CUST-002", customer_name |-> "Bob", items |-> items] :
        items \in {<<Tea, Scone>>, <<Scone>>, <<Tea, NullNameItem>>, <<Scone, NoPriceItem, Tea>>}}

\* the order_items row of one INSERT
ItemRow(id, order_id, item) ==
    [id |-> id,
     order_id |-> order_id,
     item_name |-> item.item_name,
     quantity |-> item.quantity,
     unit_price |-> item.unit_price.v,
     subtotal |-> item.unit_price.v * item.quantity]

\* Mutant (C24): leaving the with block by an exception commits what the
\* connection has executed.
Mutant_exit_commits(p) ==
    [orders |-> local[p].orders, order_items |-> local[p].order_items,
     item_sequence |-> local[p].item_sequence]

\* sqlite3's connection context manager on an exception: rollback, the
\* committed tables stay as they are
connection_exit_on_exception(p) ==
    [orders |-> orders, order_items |-> order_items, item_sequence |-> item_sequence]

\* the record of a call that has ended
Ended(p, ret) ==
    [op |-> local[p].op, id |-> local[p].id, arg |-> local[p].arg, ret |-> ret]

\* sqlite3.connect, datetime.now(), json.dumps
CreateBegin(p) ==
    /\ pc[p] = "idle"
    /\ calls < MaxTxCalls
    /\ calls' = calls + 1
    /\ \E o \in OrderIds, a \in CreateTxInputs, now \in clock..MaxClock :
         /\ clock' = now
         /\ local' = [local EXCEPT ![p] =
               [op |-> "create_order", id |-> o, arg |-> a, now |-> now]]
    /\ pc' = [pc EXCEPT ![p] = "create_begun"]
    /\ UNCHANGED <<app, convVars, res, orders, order_items, item_sequence, table, placed>>

\* INSERT INTO orders: IntegrityError for a stored order_id (the call returns
\* False), else the row is in the connection's transaction
CreateInsertOrder(p) ==
    /\ pc[p] = "create_begun"
    /\ ~WriteLocked
    /\ IF local[p].id \in DOMAIN orders
       THEN /\ local' = [local EXCEPT ![p] = Ended(p, Return(FALSE))]
            /\ pc' = [pc EXCEPT ![p] = "idle"]
       ELSE /\ local' = [local EXCEPT ![p] =
                  [op |-> local[p].op, id |-> local[p].id, arg |-> local[p].arg,
                   orders |-> OrderManager_create_order(
                                  local[p].id, local[p].arg.customer_id,
                                  local[p].arg.customer_name, <<>>, 0, NoneStr, NoneStr,
                                  None, local[p].now).orders,
                   order_items |-> order_items,
                   item_sequence |-> item_sequence,
                   next |-> 1]]
            /\ pc' = [pc EXCEPT ![p] = "create_inserting"]
    /\ UNCHANGED <<app, clock, convVars, res, orderVars>>

\* INSERT INTO orders while another connection holds the write lock until the
\* busy timeout: sqlite3.OperationalError, which create_order does not catch
CreateBusy(p) ==
    /\ pc[p] = "create_begun"
    /\ WriteLocked
    /\ local' = [local EXCEPT ![p] = Ended(p, Raise("OperationalError"))]
    /\ pc' = [pc EXCEPT ![p] = "idle"]
    /\ UNCHANGED <<app, clock, convVars, res, orderVars>>

\* one turn of the loop over items: KeyError for a dict without unit_price,
\* IntegrityError (False) for a NULL item_name, else the INSERT INTO order_items
CreateInsertItem(p) ==
    /\ pc[p] = "create_inserting"
    /\ local[p].next <= Len(local[p].arg.items)
    /\ LET item == local[p].arg.items[local[p].next]
           failed == connection_exit_on_exception(p)
       IN  IF "unit_price" \notin DOMAIN item \/ item.item_name = NoneStr
           THEN /\ orders' = failed.orders
                /\ order_items' = failed.order_items
                /\ item_sequence' = failed.item_sequence
                /\ local' = [local EXCEPT ![p] =
                      Ended(p, IF "unit_price" \notin DOMAIN item
                               THEN Raise("KeyError") ELSE Return(FALSE))]
                /\ pc' = [pc EXCEPT ![p] = "idle"]
           ELSE /\ local' = [local EXCEPT ![p] =
                      [local[p] EXCEPT
                          !.order_items = Append(@, ItemRow(local[p].item_sequence + 1,
                                                            local[p].id, item)),
                          !.item_sequence = @ + 1,
                          !.next = @ + 1]]
                /\ pc' = pc
                /\ UNCHANGED <<orders, order_items, item_sequence>>
    /\ UNCHANGED <<app, clock, convVars, res, table, placed, calls>>

\* conn.commit() after the loop, return True
CreateCommit(p) ==
    /\ pc[p] = "create_inserting"
    /\ local[p].next > Len(local[p].arg.items)
    /\ orders' = local[p].orders
    /\ order_items' = local[p].order_items
    /\ item_sequence' = local[p].item_sequence
    /\ local' = [local EXCEPT ![p] = Ended(p, Return(TRUE))]
    /\ pc' = [pc EXCEPT ![p] = "idle"]
    /\ UNCHANGED <<app, clock, convVars, res, table, placed, calls>>

CreateTxNext ==
    \E p \in Clients :
        \/ CreateBegin(p)
        \/ CreateInsertOrder(p)
        \/ CreateBusy(p)
        \/ CreateInsertItem(p)
        \/ CreateCommit(p)

CreateTxSpec == Init /\ [][CreateTxNext]_vars

-----------------------------------------------------------------------------
(* Claims on the conversation stores (checked under Spec)                   *)

\* list_messages with no limit and no offset, per adapter
RelList(c) == ConversationManager_get_conversation_messages(c, 0, 0)
S3List(c) == ConversationManagerS3_get_conversation_messages(c, 0, 0)

\* the message dict list_messages is expected to show for the add_message call
\* recorded in r, with the id the adapter returned
Listed(r, id) ==
    [id |-> id,
     conversation_id |-> r.id,
     timestamp |-> isoformat(r.timestamp),
     sender_type |-> r.arg.sender_type,
     sender_name |-> r.arg.sender_name,
     content |-> r.arg.content,
     metadata |-> IF Truthy(r.arg.metadata) THEN r.arg.metadata ELSE EmptyDict]

\* C1: in both adapters, after create(id) a get(id) returns a conversation with
\* that id, and create(id) on an id that already exists returns False and
\* leaves what get(id) and list_messages(id) return unchanged.
C1_CreateKeepsExisting ==
    [][\A c \in ConvIds :
         (res'.op = "create_conversation" /\ res'.id = c) =>
            /\ ConversationManager_get_conversation(c)' # None
            /\ ConversationManager_get_conversation(c)'.id = c
            /\ ConversationManagerS3_get_conversation(c)' # None
            /\ ConversationManagerS3_get_conversation(c)'.id = c
            /\ ConversationManager_get_conversation(c) # None =>
                  /\ res'.rel = Return(FALSE)
                  /\ ConversationManager_get_conversation(c)'
                        = ConversationManager_get_conversation(c)
                  /\ RelList(c)' = RelList(c)
            /\ ConversationManagerS3_get_conversation(c) # None =>
                  /\ res'.s3 = Return(FALSE)
                  /\ ConversationManagerS3_get_conversation(c)'
                        = ConversationManagerS3_get_conversation(c)
                  /\ S3List(c)' = S3List(c)
      ]_vars

\* C1 witness: a create on an id both adapters hold, with other arguments than
\* the stored record's and with a message stored, has returned False twice.
C1_Witness ==
    /\ res.op = "create_conversation"
    /\ res.pre.rel /\ res.pre.s3
    /\ res.rel = Return(FALSE) /\ res.s3 = Return(FALSE)
    /\ ConversationManager_get_conversation(res.id).customer_id # res.arg.customer_id
    /\ ConversationManagerS3_get_conversation(res.id).customer_id # res.arg.customer_id
    /\ RelList(res.id) # <<>> /\ S3List(res.id) # <<>>

\* C2: in both adapters every add_message call puts its message at the end of
\* what list_messages (no limit, no offset) returned before and leaves the
\* earlier messages in place, so N calls in a row list as those N messages in
\* append order, equal timestamps included.
C2_AppendOrder ==
    [][\A c \in ConvIds :
         (res'.op = "add_message" /\ res'.id = c) =>
            /\ res'.rel.exc = "none" /\ res'.s3.exc = "none"
            /\ RelList(c)' = Append(RelList(c), Listed(res', res'.rel.val))
            /\ S3List(c)' = Append(S3List(c), Listed(res', res'.s3.val))
      ]_vars

\* C2 witness: two messages of one conversation carry the same timestamp and
\* both adapters list them, the earlier call's first.
C2_Witness ==
    /\ res.op = "add_message"
    /\ Len(RelList(res.id)) = 2 /\ Len(S3List(res.id)) = 2
    /\ RelList(res.id)[1].timestamp = RelList(res.id)[2].timestamp
    /\ S3List(res.id)[1].timestamp = S3List(res.id)[2].timestamp
    /\ RelList(res.id)[1].id < RelList(res.id)[2].id
    /\ RelList(res.id)[2].id = res.rel.val
    /\ S3List(res.id)[2].id = res.s3.val
    /\ RelList(res.id)[1].content # RelList(res.id)[2].content

\* C3 (as claimed): in both adapters delete on an existing conversation returns
\* True and afterwards get returns None and list_messages is empty; delete on
\* an id that does not exist returns False.
C3_DeleteAsClaimed ==
    [][\A c \in ConvIds :
         (res'.op = "delete_conversation" /\ res'.id = c) =>
            /\ IF ConversationManager_get_conversation(c) # None
               THEN /\ res'.rel = Return(TRUE)
                    /\ ConversationManager_get_conversation(c)' = None
                    /\ RelList(c)' = <<>>
               ELSE res'.rel = Return(FALSE)
            /\ IF ConversationManagerS3_get_conversation(c) # None
               THEN /\ res'.s3 = Return(TRUE)
                    /\ ConversationManagerS3_get_conversation(c)' = None
                    /\ S3List(c)' = <<>>
               ELSE res'.s3 = Return(FALSE)
      ]_vars

\* C9 (as claimed): in the SQLite adapter every stored message belongs to an
\* existing conversation (add_message on a missing conversation stores nothing).
C9_NoOrphanMessages ==
    \A i \in 1..Len(messages) : messages[i].conversation_id \in DOMAIN conversations

\* C10 (as claimed): in the S3 adapter add_message on a conversation whose
\* metadata document is missing returns a message id, leaves a messages
\* document holding exactly that message, and creates no metadata document.
C10_ExactlyThatMessage ==
    [][\A c \in ConvIds :
         (/\ res'.op = "add_message" /\ res'.id = c
          /\ ConversationManagerS3_get_conversation(c) = None) =>
            /\ res'.s3 = Return(uuid4(uuids'))
            /\ S3List(c)' = <<Listed(res', res'.s3.val)>>
            /\ ConversationManagerS3_get_conversation(c)' = None
      ]_vars

\* C10 (amended): ... returns a message id, appends that message to the
\* messages document, which is created with exactly that message when there
\* was none, and creates no metadata document.
C10_AppendsWithoutMetadata ==
    [][\A c \in ConvIds :
         (/\ res'.op = "add_message" /\ res'.id = c
          /\ ConversationManagerS3_get_conversation(c) = None) =>
            /\ res'.s3 = Return(uuid4(uuids'))
            /\ _get_messages_key(c) \in DOMAIN bucket'
            /\ bucket'[_get_messages_key(c)].messages
                 = (IF _get_messages_key(c) \in DOMAIN bucket
                    THEN bucket[_get_messages_key(c)].messages ELSE <<>>)
                   \o <<Listed(res', res'.s3.val)>>
            /\ S3List(c)' = bucket'[_get_messages_key(c)].messages
            /\ ConversationManagerS3_get_conversation(c)' = None
      ]_vars

\* C10 witness: add_message on an id with neither document has returned; the
\* messages document holds that one message and there is no metadata document.
C10_Witness ==
    /\ res.op = "add_message"
    /\ ~res.pre.s3 /\ ~res.pre.s3msgs
    /\ res.s3.exc = "none"
    /\ S3List(res.id) = <<Listed(res, res.s3.val)>>
    /\ ConversationManagerS3_get_conversation(res.id) = None

\* the messages of a list, as a set
Range(seq) == {seq[i] : i \in 1..Len(seq)}

\* a step that is neither delete(c) nor clear_all
KeepsMessagesOf(c) ==
    ~(res'.op = "delete_conversation" /\ res'.id = c) /\ res'.op # "clear_all_data"

\* C25: in both adapters every message list_messages(c) shows is still shown,
\* with the same id, sender_type, sender_name, content and metadata, after
\* any call that is not delete(c) and not clear_all; create(c) and
\* add_message in particular remove and alter no message.
C25_MessagesStay ==
    [][\A c \in ConvIds :
         KeepsMessagesOf(c) =>
            /\ Range(RelList(c)) \subseteq Range(RelList(c)')
            /\ Range(S3List(c)) \subseteq Range(S3List(c)')
      ]_vars

\* the slice of a sequence from index offset (0-based) with at most limit elements
Slice(seq, offset, limit) ==
    SubSeq(seq, offset + 1, IF offset + limit < Len(seq) THEN offset + limit ELSE Len(seq))

\* the slice of a sequence from index offset (0-based) to its end
From(seq, offset) == SubSeq(seq, offset + 1, Len(seq))

\* the last min(limit, Len) elements of a sequence
Last(seq, limit) ==
    SubSeq(seq, (IF limit < Len(seq) THEN Len(seq) - limit ELSE 0) + 1, Len(seq))

\* C11 (as claimed): in both adapters list_messages(c, limit, offset) is the
\* slice of the ascending sequence from index offset with at most limit
\* elements, and with no limit it is the sequence from index offset onward.
C11_ListIsSlice ==
    \A c \in ConvIds, offset \in 0..MaxMessages :
        /\ ConversationManager_get_conversation_messages(c, 0, offset)
              = From(RelList(c), offset)
        /\ ConversationManagerS3_get_conversation_messages(c, 0, offset)
              = From(S3List(c), offset)
        /\ \A limit \in 1..MaxMessages :
              /\ ConversationManager_get_conversation_messages(c, limit, offset)
                    = Slice(RelList(c), offset, limit)
              /\ ConversationManagerS3_get_conversation_messages(c, limit, offset)
                    = Slice(S3List(c), offset, limit)

\* C12 (as claimed): in both adapters recent_messages(c, limit), limit >= 0, is
\* the last min(limit, n) messages of the ascending sequence, oldest first;
\* limit = 0 gives the empty sequence.
C12_RecentIsLastWindow ==
    \A c \in ConvIds, limit \in 0..MaxMessages + 1 :
        /\ ConversationManager_get_recent_messages(c, limit) = Last(RelList(c), limit)
        /\ ConversationManagerS3_get_recent_messages(c, limit) = Last(S3List(c), limit)

-----------------------------------------------------------------------------
(* Claims on the order stores (checked under OrderSpec)                     *)

\* sum of quantity * unit_price over the items get_order returns (SQLite)
RECURSIVE SumStored(_)
SumStored(items) ==
    IF items = <<>> THEN 0
    ELSE Head(items).quantity * Head(items).unit_price + SumStored(Tail(items))

\* sum of the counts of a status_breakdown
RECURSIVE SumCounts(_, _)
SumCounts(breakdown, keys) ==
    IF keys = {} THEN 0
    ELSE LET k == CHOOSE x \in keys : TRUE
         IN  breakdown[k] + SumCounts(breakdown, keys \ {k})

\* number of messages list_messages returns over the conversations cs, from the
\* S3 adapter (s3 = TRUE) or the SQLite adapter
RECURSIVE CountListed(_, _)
CountListed(cs, s3) ==
    IF cs = {} THEN 0
    ELSE LET c == CHOOSE x \in cs : TRUE
         IN  Len(IF s3 THEN S3List(c) ELSE RelList(c)) + CountListed(cs \ {c}, s3)

\* C5: in both adapters, create on an order_id that already exists returns
\* False and leaves what get(order_id) returns unchanged (status, items,
\* total_price, created_at and every other field).
C5_CreateExistingRefused ==
    [][\A o \in OrderIds :
         (res'.op = "create_order" /\ res'.id = o) =>
            /\ OrderManager_get_order(o) # None =>
                  /\ res'.rel = Return(FALSE)
                  /\ OrderManager_get_order(o)' = OrderManager_get_order(o)
            /\ OrderManagerDynamoDB_get_order(o) # None =>
                  /\ res'.dyn = Return(FALSE)
                  /\ OrderManagerDynamoDB_get_order(o)' = OrderManagerDynamoDB_get_order(o)
      ]_vars

\* C6 (as stated): every stored order, in either store, however it was created,
\* has total_price = round(sum of quantity * unit_price over its items, 2).
C6_TotalIsRoundedSum ==
    /\ \A o \in DOMAIN orders :
          OrderManager_get_order(o).total_price
              = Round2(SumStored(OrderManager_get_order(o).items))
    /\ \A o \in DOMAIN table :
          "items" \in DOMAIN table[o] =>
              OrderManagerDynamoDB_get_order(o).total_price
                  = Round2(SumItems(OrderManagerDynamoDB_get_order(o).items))

\* C6 (amended): every order the place_order tool has stored is returned by
\* get with at least one item, the tool's metadata, and total_price =
\* round(sum of quantity * unit_price over its items, 2).
C6_PlacedTotalIsRoundedSum ==
    \A o \in placed :
        /\ OrderManager_get_order(o) # None
        /\ OrderManager_get_order(o).metadata = PlaceOrderMetadata
        /\ Len(OrderManager_get_order(o).items) >= 1
        /\ OrderManager_get_order(o).total_price
              = Round2(SumStored(OrderManager_get_order(o).items))

\* Witness C6: the tool has stored one order of a single item with a quantity
\* above one and another order of two items.
C6_Witness ==
    /\ res.op = "place_order"
    /\ res.rel.val.success
    /\ \E o1 \in placed, o2 \in placed :
          /\ Len(OrderManager_get_order(o1).items) = 1
          /\ OrderManager_get_order(o1).items[1].quantity > 1
          /\ Len(OrderManager_get_order(o2).items) = 2

\* C7: in both adapters, for an order that exists, after update_status(id, s)
\* get(id) returns status s and an updated_at not smaller than the updated_at
\* it returned before the call.
C7_UpdateStatusReflected ==
    [][\A o \in OrderIds :
         (res'.op = "update_order_status" /\ res'.id = o) =>
            /\ OrderManager_get_order(o) # None =>
                  /\ OrderManager_get_order(o)' # None
                  /\ OrderManager_get_order(o)'.status = res'.status
                  /\ TextLeq(OrderManager_get_order(o).updated_at,
                             OrderManager_get_order(o)'.updated_at)
            /\ OrderManagerDynamoDB_get_order(o) # None =>
                  /\ OrderManagerDynamoDB_get_order(o)' # None
                  /\ OrderManagerDynamoDB_get_order(o)'.status = res'.status
                  /\ TextLeq(OrderManagerDynamoDB_get_order(o).updated_at,
                             OrderManagerDynamoDB_get_order(o)'.updated_at)
      ]_vars

\* Witness C7: update_status has just acted on an order that existed in both
\* stores; both now return the new status and an updated_at later than the
\* created_at of the order.
C7_Witness ==
    /\ res.op = "update_order_status"
    /\ res.pre.rel /\ res.pre.dyn
    /\ res.rel = Return(TRUE) /\ res.dyn = Return(TRUE)
    /\ OrderManager_get_order(res.id).status = res.status
    /\ OrderManagerDynamoDB_get_order(res.id).status = res.status
    /\ "created_at" \in DOMAIN table[res.id]
    /\ TextLess(OrderManager_get_order(res.id).created_at,
                OrderManager_get_order(res.id).updated_at)
    /\ TextLess(OrderManagerDynamoDB_get_order(res.id).created_at,
                OrderManagerDynamoDB_get_order(res.id).updated_at)

\* C8: statistics() of every store matches the stored data: the conversation
\* stores count the conversations get returns and the messages list_messages
\* returns; the order stores give total_orders = number of stored orders = sum
\* of the status_breakdown counts, for every size of the scan page.
C8_StatisticsMatch ==
    /\ ConversationManager_get_statistics.total_conversations
          = Cardinality({c \in ConvIds : ConversationManager_get_conversation(c) # None})
    /\ ConversationManager_get_statistics.total_messages = CountListed(ConvIds, FALSE)
    /\ ConversationManagerS3_get_statistics.total_conversations
          = Cardinality({c \in ConvIds : ConversationManagerS3_get_conversation(c) # None})
    /\ ConversationManagerS3_get_statistics.total_messages = CountListed(ConvIds, TRUE)
    /\ LET s == OrderManager_get_order_statistics
       IN  /\ s.total_orders = Cardinality({o \in OrderIds : OrderManager_get_order(o) # None})
           /\ s.total_orders = SumCounts(s.status_breakdown, DOMAIN s.status_breakdown)
    /\ \A page_size \in 1..MaxPageItems :
          LET s == OrderManagerDynamoDB_get_order_statistics(page_size)
          IN  /\ s.total_orders
                    = Cardinality({o \in OrderIds : OrderManagerDynamoDB_get_order(o) # None})
              /\ s.total_orders = SumCounts(s.status_breakdown, DOMAIN s.status_breakdown)

\* result lists exactly the min(limit, k) newest of the k orders in matching,
\* newest first
IsNewestOf(result, matching, created_at, limit) ==
    /\ Len(result) = IF limit < Cardinality(matching) THEN limit ELSE Cardinality(matching)
    /\ \A i \in 1..Len(result) : result[i].order_id \in matching
    /\ \A i, j \in 1..Len(result) : i # j => result[i].order_id # result[j].order_id
    /\ \A i \in 1..Len(result) - 1 : TextLeq(result[i + 1].created_at, result[i].created_at)
    /\ \A o \in matching \ {result[i].order_id : i \in 1..Len(result)} :
          \A i \in 1..Len(result) : TextLeq(created_at[o], result[i].created_at)

\* C13 (as claimed): in both adapters list_by_customer(name, limit, status)
\* returns the min(limit, k) most recently created of the k orders of that
\* customer with that status, newest first.
C13_FilterBeforeLimit ==
    \A name \in CustomerNames, limit \in 1..Cardinality(OrderIds), status \in OrderStatus :
        /\ LET created_at == [o \in DOMAIN orders |-> orders[o].created_at]
               matching == {o \in DOMAIN orders :
                               orders[o].customer_name = name /\ orders[o].status = status}
           IN  \A result \in OrderManager_get_customer_orders(name, limit, status) :
                   IsNewestOf(result, matching, created_at, limit)
        /\ LET created_at == [o \in {x \in DOMAIN table : "created_at" \in DOMAIN table[x]} |->
                             table[o].created_at]
               matching == {o \in customer_name_index(name) :
                               "status" \in DOMAIN table[o] /\ table[o].status = status}
           IN  \A result \in OrderManagerDynamoDB_get_customer_orders(name, limit, status) :
                   IsNewestOf(result, matching, created_at, limit)

\* result is the newest of the orders in mine, or None when there is none
IsLastOf(result, mine, created_at) ==
    IF mine = {} THEN result = None
    ELSE /\ result # None
         /\ result.order_id \in mine
         /\ \A o \in mine : TextLeq(created_at[o], result.created_at)

\* C14 (as claimed): last_order(customer_id) returns the order with the
\* greatest created_at among the stored orders whose customer_id equals the
\* argument, and None when there is no such order (the DynamoDB table being
\* deployed with a customer_id index).
C14_LastOrderByCustomerId ==
    \A customer_id \in CustomerIds \cup CustomerNames :
        /\ LET created_at == [o \in DOMAIN orders |-> orders[o].created_at]
               mine == {o \in DOMAIN orders : orders[o].customer_id = customer_id}
           IN  \A result \in OrderManager_get_customer_last_order(customer_id) :
                   IsLastOf(result, mine, created_at)
        /\ LET created_at == [o \in {x \in DOMAIN table : "created_at" \in DOMAIN table[x]} |->
                             table[o].created_at]
               mine == customer_id_index(customer_id)
           IN  \A result \in OrderManagerDynamoDB_get_customer_last_order(customer_id, TRUE) :
                   IsLastOf(result, mine, created_at)

\* the items of a stored order are the given ones, in the given order, each
\* with a subtotal of quantity * unit_price
ItemsWithSubtotal(stored, given) ==
    /\ Len(stored) = Len(given)
    /\ \A i \in 1..Len(given) :
          /\ stored[i].item_name = given[i].item_name
          /\ stored[i].quantity = given[i].quantity
          /\ "subtotal" \in DOMAIN stored[i]
          /\ stored[i].subtotal = given[i].quantity * given[i].unit_price.v

\* what get shows right after a create with arguments a that returned True
FreshOrder(order, a) ==
    /\ order # None
    /\ order.customer_id = a.customer_id
    /\ order.customer_name = a.customer_name
    /\ order.status = "Pending"
    /\ order.created_at = order.updated_at
    /\ ItemsWithSubtotal(order.items, a.items)

\* C17: after a create that returned True, get(order_id) returns the order
\* with status Pending, created_at = updated_at and the given items in the
\* given order, each with subtotal = quantity * unit_price, in the SQLite
\* adapter and in the DynamoDB adapter.
C17_CreatedOrderAsGiven ==
    res.op = "create_order" =>
        /\ res.rel = Return(TRUE) =>
              \E a \in OrderInputs : FreshOrder(OrderManager_get_order(res.id), a)
        /\ res.dyn = Return(TRUE) =>
              \E a \in OrderInputs : FreshOrder(OrderManagerDynamoDB_get_order(res.id), a)

\* the requested items that are invalid: empty name, quantity that is not a
\* positive integer, or a name that is not on the menu
InvalidRequested(items) ==
    {i \in 1..Len(items) :
        \/ strip(items[i].item_name) = ""
        \/ ~items[i].quantity_is_int
        \/ items[i].quantity <= 0
        \/ strip(items[i].item_name) \notin DOMAIN MENU_PRICES}

\* a place_order step that stored nothing
NothingStored == orders' = orders /\ order_items' = order_items

\* a place_order step that stored exactly the order res'.id
OneOrderStored ==
    /\ res'.id \notin DOMAIN orders
    /\ DOMAIN orders' = DOMAIN orders \cup {res'.id}
    /\ \A o \in DOMAIN orders : orders'[o] = orders[o]

\* C20 as stated: place_order reports one error per invalid item; with an
\* invalid item it returns success = False with the full list and stores no
\* order, and with all items valid it stores exactly one order.
C20_AllValidCreatesOne ==
    [][res'.op = "place_order" =>
          LET bad == InvalidRequested(res'.arg.items)
          IN  /\ bad # {} => /\ ~res'.rel.val.success
                             /\ Len(res'.rel.val.errors) = Cardinality(bad)
                             /\ NothingStored
              /\ bad = {} => OneOrderStored
      ]_vars

\* C20, amended: for a request with a customer name and at least one item,
\* place_order reports one error per invalid item; with an invalid item it
\* returns success = False with the full list and stores no order; with all
\* items valid it stores exactly one order and returns success = True when
\* the order id it drew is not stored yet.  Without a customer name, without
\* items, or with an order id that is already stored it returns
\* success = False and stores nothing.
C20_PlaceOrderValidates ==
    [][res'.op = "place_order" =>
          LET bad == InvalidRequested(res'.arg.items)
              checked == res'.arg.customer_name # "" /\ res'.arg.items # <<>>
          IN  /\ (checked /\ bad # {}) =>
                     /\ ~res'.rel.val.success
                     /\ Len(res'.rel.val.errors) = Cardinality(bad)
                     /\ NothingStored
              /\ (checked /\ bad = {} /\ res'.id \notin DOMAIN orders) =>
                     /\ res'.rel.val.success
                     /\ OneOrderStored
              /\ (~checked \/ (bad = {} /\ res'.id \in DOMAIN orders)) =>
                     /\ ~res'.rel.val.success
                     /\ NothingStored
      ]_vars

\* Witness C20: a request with four invalid items came back with four errors
\* while the store holds an order placed by an earlier, valid request.
C20_Witness ==
    /\ res.op = "place_order"
    /\ Cardinality(InvalidRequested(res.arg.items)) = 4
    /\ ~res.rel.val.success
    /\ Len(res.rel.val.errors) = 4
    /\ placed # {}

\* result lists each order of matching once and nothing else, oldest first
IsOldestFirstOf(result, matching) ==
    /\ Len(result) = Cardinality(matching)
    /\ {result[i].order_id : i \in 1..Len(result)} = matching
    /\ \A i \in 1..Len(result) - 1 : TextLeq(result[i].created_at, result[i + 1].created_at)

\* the orders get_order shows with status s, per adapter
RelWithStatus(s) == {o \in DOMAIN orders : OrderManager_get_order(o).status = s}
DynWithStatus(s) ==
    {o \in DOMAIN table : "status" \in DOMAIN table[o] /\ table[o].status = s}

\* C26: in both adapters list_by_status(s) without a limit returns exactly
\* the stored orders whose status is s, oldest first; so after update_status
\* has moved an order from s to t it is listed under t and not under s.
C26_ListByStatus ==
    \A s \in OrderStatus :
        /\ \A result \in OrderManager_get_orders_by_status(s, 0) :
              IsOldestFirstOf(result, RelWithStatus(s))
        /\ \A result \in OrderManagerDynamoDB_get_orders_by_status(s, 0) :
              IsOldestFirstOf(result, DynWithStatus(s))

\* C27: in both adapters update_status and update_ready_time on an order_id
\* that is not stored return False and leave the store as it was: no record
\* is created and get(order_id) still returns None.
C27_UpdateMissingRefused ==
    [][\A o \in OrderIds :
         (res'.op \in {"update_order_status", "update_order_ready_time"} /\ res'.id = o) =>
            /\ o \notin DOMAIN orders =>
                  /\ res'.rel = Return(FALSE)
                  /\ orders' = orders /\ order_items' = order_items
                  /\ OrderManager_get_order(o)' = None
            /\ o \notin DOMAIN table =>
                  /\ res'.dyn = Return(FALSE)
                  /\ table' = table
                  /\ OrderManagerDynamoDB_get_order(o)' = None
      ]_vars

\* C28: in both adapters delete(order_id) returns True exactly when the id
\* was stored before the call; afterwards get(order_id) returns None and no
\* item of the order is left, and on an id that was not stored nothing
\* changes; the two adapters return the same result for the same prior state.
C28_DeleteReportsExistence ==
    [][\A o \in OrderIds :
         (res'.op = "delete_order" /\ res'.id = o) =>
            /\ res'.rel = Return(o \in DOMAIN orders)
            /\ res'.dyn = Return(o \in DOMAIN table)
            /\ OrderManager_get_order(o)' = None
            /\ OrderManagerDynamoDB_get_order(o)' = None
            /\ \A i \in 1..Len(order_items') : order_items'[i].order_id # o
            /\ o \notin DOMAIN orders => orders' = orders /\ order_items' = order_items
            /\ o \notin DOMAIN table => table' = table
            /\ (o \in DOMAIN orders <=> o \in DOMAIN table) => res'.rel = res'.dyn
      ]_vars

-----------------------------------------------------------------------------
(* Claims on status updates (checked under StatusSpec)                      *)

\* C15: in both adapters update_status on an existing order returns True and
\* get then shows the requested status, whatever status the order had and
\* whatever status is requested (no transition is refused).
C15_AnyTransitionAccepted ==
    [][\A o \in OrderIds :
         (res'.op = "update_order_status" /\ res'.id = o) =>
            /\ OrderManager_get_order(o) # None =>
                  /\ res'.rel = Return(TRUE)
                  /\ OrderManager_get_order(o)'.status = res'.status
            /\ OrderManagerDynamoDB_get_order(o) # None =>
                  /\ res'.dyn = Return(TRUE)
                  /\ OrderManagerDynamoDB_get_order(o)'.status = res'.status
      ]_vars

\* Witness C15: an order that both stores showed as Completed has been set
\* back to Pending by an update_status that returned True in both.
C15_Witness ==
    /\ res.op = "update_order_status"
    /\ res.pre.rel /\ res.pre.dyn
    /\ res.from = [rel |-> "Completed", dyn |-> "Completed"]
    /\ res.status = "Pending"
    /\ res.rel = Return(TRUE) /\ res.dyn = Return(TRUE)
    /\ StatusNow(res.id) = [rel |-> "Pending", dyn |-> "Pending"]

-----------------------------------------------------------------------------
(* Claims on failing reads (checked under FaultSpec)                        *)

\* C16: a read whose request failed for a reason other than absence gives
\* the caller a result different from the result for an absent key (None),
\* in the S3 adapter's get_conversation and in the DynamoDB adapter's
\* get_order.
C16_FailureIsNotNotFound ==
    (res.op \in {"get_conversation", "get_order"} /\ res.outcome # "answered")
        => res.ret # Return(None)

-----------------------------------------------------------------------------
(* Claims on the stores the program uses (checked under WiringSpec)         *)

\* the conversation store holds a message of conversation c with this content
HoldsMessage(store, c, content) ==
    IF store = "s3"
    THEN /\ _get_messages_key(c) \in DOMAIN bucket
         /\ \E i \in 1..Len(bucket[_get_messages_key(c)].messages) :
               bucket[_get_messages_key(c)].messages[i].content = content
    ELSE \E i \in 1..Len(messages) :
               messages[i].conversation_id = c /\ messages[i].content = content

\* the order store holds order o
HoldsOrder(store, o) ==
    IF store = "dynamodb" THEN o \in DOMAIN table ELSE o \in DOMAIN orders

\* C18: the store the program works on is the one the factory selects for the
\* configured backend: a message RestaurantAssistant.run appended is in the
\* conversation store ConversationManagerFactory.create() selects (where
\* main.get_conversation found or created the conversation), an order
\* place_order stored and an order get_order_status reports are in the order
\* store OrderManagerFactory.create_from_env() selects.
C18_StoresAreSelected ==
    /\ res.op = "run" =>
          HoldsMessage(Selected(ConversationManagerFactory_create(app.environ)), res.id, res.content)
    /\ (res.op = "place_order" /\ res.rel.val.success) =>
          HoldsOrder(Selected(OrderManagerFactory_create_from_env(app.environ)), res.id)
    /\ (res.op = "get_order_status" /\ res.ret.found) =>
          HoldsOrder(Selected(OrderManagerFactory_create_from_env(app.environ)), res.ret.order_id)

-----------------------------------------------------------------------------
(* Claims on the factories (checked under FactorySpec)                      *)

\* C19: for a CONVERSATION_STORAGE value that is neither sqlite nor s3 (in
\* any letter case) ConversationManagerFactory.create raises ValueError, for
\* an ORDER_MANAGER_TYPE value that is neither sqlite nor dynamodb
\* OrderManagerFactory.create_from_env raises ValueError, and with s3 chosen
\* and no bucket name ConversationManagerFactory.create raises ValueError; no
\* manager is returned in these cases.
C19_NoSilentFallback ==
    res.op = "create" =>
        LET storage_type == lower(getenv(res.environ, "CONVERSATION_STORAGE", "sqlite"))
            manager_type == lower(getenv(res.environ, "ORDER_MANAGER_TYPE", "sqlite"))
        IN  /\ storage_type \notin {"sqlite", "s3"} =>
                  res.conversation_manager = Raise("ValueError")
            /\ manager_type \notin {"sqlite", "dynamodb"} =>
                  res.order_manager = Raise("ValueError")
            /\ (storage_type = "s3" /\ res.environ.S3_BUCKET_NAME \in {NoneStr, ""}) =>
                  res.conversation_manager = Raise("ValueError")

\* Witness C19: both factories were called with unknown backend values and
\* both raised ValueError.
C19_Witness ==
    /\ res.op = "create"
    /\ res.environ.CONVERSATION_STORAGE = "mysql"
    /\ res.environ.ORDER_MANAGER_TYPE = "s3"
    /\ res.conversation_manager = Raise("ValueError")
    /\ res.order_manager = Raise("ValueError")

-----------------------------------------------------------------------------
(* Claims on concurrent callers of the S3 adapter (checked under ConcSpec)  *)

\* ids of the messages in the stored messages document of c
StoredIds(c) ==
    LET doc == _load_json_from_s3(_get_messages_key(c))
    IN  IF doc = None THEN {} ELSE {doc.messages[i].id : i \in 1..Len(doc.messages)}

\* C4: the write of add_message replaces the messages document by what the call
\* read earlier plus its own message, whatever the document holds by then, and
\* the call returns its message id; so two overlapping calls can both return
\* while one message is gone (the witness).
C4_OverwritesWhatItRead ==
    [][\A p \in Clients :
         /\ (pc[p] = "add_loaded" /\ pc'[p] = "add_saved") =>
               bucket'[_get_messages_key(local[p].id)].messages
                  = Append(local[p].messages_data.messages, local[p].message)
         /\ (pc[p] = "add_conversation_loaded" /\ pc'[p] = "idle") =>
               local'[p].ret = Return(local[p].message.id)
      ]_vars

\* C4 witness: one create and two add_message calls were issued, both
\* add_message calls began when the conversation's two documents existed and
\* have returned their ids, and the messages document holds exactly one of the
\* two messages.
C4_LostUpdate ==
    /\ calls = 3
    /\ \A p \in Clients :
         /\ pc[p] = "idle"
         /\ local[p].op = "add_message"
         /\ local[p].pre.s3 /\ local[p].pre.s3msgs
         /\ local[p].ret = Return(local[p].message.id)
    /\ _get_conversation_key(ConcConv) \in DOMAIN bucket
    /\ Cardinality(StoredIds(ConcConv)) = 1
    /\ Cardinality(StoredIds(ConcConv) \cap {local[p].message.id : p \in Clients}) = 1

\* no client is inside a call
Quiescent == \A p \in Clients : pc[p] = "idle"

\* seq is non-decreasing by timestamp
NonDecreasing(seq) ==
    \A i \in 1..Len(seq) - 1 : TextLeq(seq[i].timestamp, seq[i + 1].timestamp)

\* C21 (as claimed): once the concurrent add_message calls on a conversation
\* have completed, list_messages of the S3 adapter returns the messages
\* non-decreasing by timestamp.
C21_ListSortedAfterConcurrentAdds ==
    Quiescent => NonDecreasing(S3List(ConcConv))

\* the metadata document of the conversation the clients share
ConcMetadata == bucket[_get_conversation_key(ConcConv)]

\* C22 (as claimed): under every interleaving of create and add_message calls
\* the stored conversation has updated_at >= created_at, and its updated_at
\* does not decrease from one state to the next.
C22_UpdatedAtMonotonic ==
    [][/\ _get_conversation_key(ConcConv) \in DOMAIN bucket' =>
             TextLeq(ConcMetadata'.created_at, ConcMetadata'.updated_at)
       /\ (/\ _get_conversation_key(ConcConv) \in DOMAIN bucket
           /\ _get_conversation_key(ConcConv) \in DOMAIN bucket') =>
             TextLeq(ConcMetadata.updated_at, ConcMetadata'.updated_at)
      ]_vars

\* C29 (as claimed): when the only calls issued are two create calls of the
\* two clients for the same new id, at most one of them returns True, and
\* the stored record is the one written by the call that returned True.
C29_AtMostOneCreates ==
    (/\ calls = 2
     /\ Quiescent
     /\ \A p \in Clients : local[p].op = "create_conversation") =>
        /\ Cardinality({p \in Clients : local[p].ret = Return(TRUE)}) = 1
        /\ \A p \in Clients :
              local[p].ret = Return(TRUE) =>
                 /\ ConcMetadata.customer_id = local[p].arg.customer_id
                 /\ ConcMetadata.customer_name = local[p].arg.customer_name

\* C30 (as claimed): after one create, one add_message that began while the
\* metadata document existed and one delete that returned True, all
\* completed, the S3 adapter stores no messages document for the
\* conversation and list_messages is empty.
C30_MessagesDoNotOutlive ==
    (/\ calls = 3
     /\ Quiescent
     /\ \E p, q \in Clients :
          /\ local[p].op = "add_message" /\ local[p].pre.s3
          /\ local[q].op = "delete_conversation" /\ local[q].ret = Return(TRUE)) =>
        /\ _get_messages_key(ConcConv) \notin DOMAIN bucket
        /\ S3List(ConcConv) = <<>>

-----------------------------------------------------------------------------
(* Claims on overlapping updates of one order (checked under TxSpec)        *)

\* C23: in the SQLite adapter the commit of an update_status on an existing
\* order stores the status of that call and keeps the committed
\* estimated_ready_time, and the commit of an update_ready_time stores its
\* time and keeps the committed status, however the two calls overlap; so
\* after both have returned the order carries both values.
C23_NoLostUpdate ==
    [][\A p \in Clients :
         (pc[p] = "tx_executed" /\ pc'[p] = "idle" /\ local[p].id \in DOMAIN orders) =>
            /\ local'[p].ret = Return(TRUE)
            /\ local[p].op = "update_order_status" =>
                 /\ orders'[local[p].id].status = local[p].value
                 /\ orders'[local[p].id].estimated_ready_time
                       = orders[local[p].id].estimated_ready_time
            /\ local[p].op = "update_order_ready_time" =>
                 /\ orders'[local[p].id].estimated_ready_time = local[p].value
                 /\ orders'[local[p].id].status = orders[local[p].id].status
      ]_vars

\* Witness C23: an update_status and an update_ready_time on the same existing
\* order overlapped, both returned True, and the order carries the status of
\* the one and the ready time of the other.
C23_Witness ==
    /\ Quiescent
    /\ \E p, q \in Clients :
         /\ local[p].op = "update_order_status"
         /\ local[q].op = "update_order_ready_time"
         /\ local[p].id = local[q].id
         /\ local[p].overlaps \/ local[q].overlaps
         /\ local[p].ret = Return(TRUE) /\ local[q].ret = Return(TRUE)
         /\ orders[local[p].id].status = local[p].value
         /\ orders[local[p].id].estimated_ready_time = local[q].value

-----------------------------------------------------------------------------
(* Claims on create_order as a unit of work (checked under CreateTxSpec)    *)

\* the committed item rows of order o
ItemsOf(o) ==
    LET Mine(row) == row.order_id = o
    IN  SelectSeq(order_items, Mine)

\* C24: in the SQLite adapter readers see an order row together with all of
\* its item rows or neither: a create_order that returns True publishes the
\* order row and one item row per item in one step, every other step of a
\* create_order leaves the tables readers see unchanged, and a create_order
\* that failed after its order row was inserted leaves no row behind; no
\* item row is ever visible without its order row.
C24_CreateIsOneUnit ==
    [][/\ \A i \in 1..Len(order_items') : order_items'[i].order_id \in DOMAIN orders'
       /\ \A p \in Clients :
            (local[p].op = "create_order" /\ pc[p] # "idle" /\ local'[p] # local[p]) =>
               IF pc'[p] = "idle" /\ local'[p].ret = Return(TRUE)
               THEN /\ local[p].id \notin DOMAIN orders
                    /\ DOMAIN orders' = DOMAIN orders \cup {local[p].id}
                    /\ Len(ItemsOf(local[p].id)') = Len(local[p].arg.items)
                    /\ \A i \in 1..Len(local[p].arg.items) :
                          /\ ItemsOf(local[p].id)'[i].item_name = local[p].arg.items[i].item_name
                          /\ ItemsOf(local[p].id)'[i].quantity = local[p].arg.items[i].quantity
               ELSE /\ orders' = orders
                    /\ order_items' = order_items
      ]_vars

\* Witness C24: a create_order whose second item was rejected has returned
\* False and the tables hold neither its order row nor its first item row,
\* while the other client's order is stored with its items.
C24_Witness ==
    /\ Quiescent
    /\ \E p, q \in Clients :
         /\ local[p].op = "create_order"
         /\ local[p].arg.items = <<Tea, NullNameItem>>
         /\ local[p].ret = Return(FALSE)
         /\ local[p].id \notin DOMAIN orders
         /\ ItemsOf(local[p].id) = <<>>
         /\ local[q].op = "create_order"
         /\ local[q].ret = Return(TRUE)
         /\ Len(ItemsOf(local[q].id)) = Len(local[q].arg.items)

====
